---------------------------- MODULE Spec2Model ----------------------------
(***************************************************************************)
(* Model of the statement-parsing and reconciliation engine of the         *)
(* repository (cartao_credito): the year rollover of short dates, the      *)
(* line-block parser with its per-hash dedup counter, the header           *)
(* extractor, the installment grouping and the PDF import command.         *)
(*                                                                         *)
(* Each component has its own specification (SpecRollover, SpecParse,      *)
(* SpecHeader, SpecGroup, SpecImport, SpecTwo for two calls of the parser  *)
(* at once, SpecKw for the parser's keyword arguments, SpecOrder for the   *)
(* grouping of one collection supplied in any order, SpecView for the      *)
(* requests to parcelados_acao); the variables of                          *)
(* the other components stay at their initial value.                       *)
(***************************************************************************)
EXTENDS Integers, Sequences, FiniteSets, TLC

VARIABLES
    \* ---- _rollover_ano called on its own
    r_dia, r_mes, r_fech, r_out, r_pc,
    \* ---- parse_lancamentos: its arguments, the environment, the call's
    \* locals, the position of the scan and what each finished call returned
    texto,            \* the statement text, a sequence of lines
    p_fech,           \* dados_fatura.fechado_em
    has_unidecode,    \* whether "from unidecode import unidecode" succeeds
    p_call,           \* number of the call in progress
    p_pc,             \* "idle", "scan", "done" or "raised"
    all_lines, p_pos, current_block, current_secao, contagem, linhas,
    p_ret,            \* results of the calls so far, in call order
    \* ---- parse_dados_fatura: its argument, and what it returned or raised
    h_texto, h_out, h_pc,
    \* ---- agrupar_parcelados: the rows of the queryset, whether
    \* core.utils.normaliza can be imported, and what the call returned
    g_itens, g_uni, g_out, g_pc,
    \* ---- importar_pdf_cartao_bb: the options and the counters of the run, the
    \* four tables of the store, and the outcome of the last statement
    i_opts, i_pc, i_run, i_n, i_ok, i_erros, i_ignorados,
    i_inst, i_cartoes, i_faturas, i_lancs, i_last,
    \* ---- two calls of parse_lancamentos in progress at once: for each call
    \* its lines behind the anchor, its locals, its position and its result
    t_lines, t_pos, t_block, t_secao, t_cont, t_linhas, t_pc, t_ret,
    \* ---- parse_lancamentos called with its keyword arguments: the text, the
    \* arguments debug_unmatched and debug_max, and what the call returned
    k_texto, k_debug, k_out, k_pc,
    \* ---- agrupar_parcelados called on one collection of rows supplied in
    \* some order: the rows by id, the queryset as supplied, and the result
    o_rows, o_itens, o_out, o_pc,
    \* ---- parcelados_acao: whether the Lancamento table has the columns the
    \* view filters and writes, the rows of the table, the number of requests
    \* answered and the last request with its answer
    a_schema, a_lancs, a_n, a_last

vars_rollover == <<r_dia, r_mes, r_fech, r_out, r_pc>>

vars_parse == <<texto, p_fech, has_unidecode, p_call, p_pc, all_lines, p_pos,
                current_block, current_secao, contagem, linhas, p_ret>>

vars_header == <<h_texto, h_out, h_pc>>

\* what each component leaves alone
vars_group == <<g_itens, g_uni, g_out, g_pc>>

vars_import == <<i_opts, i_pc, i_run, i_n, i_ok, i_erros, i_ignorados,
                 i_inst, i_cartoes, i_faturas, i_lancs, i_last>>

vars_two == <<t_lines, t_pos, t_block, t_secao, t_cont, t_linhas, t_pc, t_ret>>

vars_kw == <<k_texto, k_debug, k_out, k_pc>>

vars_order == <<o_rows, o_itens, o_out, o_pc>>

vars_view == <<a_schema, a_lancs, a_n, a_last>>

not_rollover == <<vars_parse, vars_header, vars_group, vars_import, vars_two, vars_kw, vars_order, vars_view>>
not_parse == <<vars_rollover, vars_header, vars_group, vars_import, vars_two, vars_kw, vars_order, vars_view>>
not_header == <<vars_rollover, vars_parse, vars_group, vars_import, vars_two, vars_kw, vars_order, vars_view>>
not_group == <<vars_rollover, vars_parse, vars_header, vars_import, vars_two, vars_kw, vars_order, vars_view>>
not_import == <<vars_rollover, vars_parse, vars_header, vars_group, vars_two, vars_kw, vars_order, vars_view>>
not_two == <<vars_rollover, vars_parse, vars_header, vars_group, vars_import, vars_kw, vars_order, vars_view>>
not_kw == <<vars_rollover, vars_parse, vars_header, vars_group, vars_import, vars_two, vars_order, vars_view>>
not_order == <<vars_rollover, vars_parse, vars_header, vars_group, vars_import, vars_two, vars_kw, vars_view>>
not_view == <<vars_rollover, vars_parse, vars_header, vars_group, vars_import, vars_two, vars_kw, vars_order>>

-----------------------------------------------------------------------------
(* datetime.date: a calendar date, or the ValueError its constructor raises *)

Date(y, m, d) == [year |-> y, month |-> m, day |-> d]

ValueError == [raise |-> "ValueError"]

IsRaise(x) == "raise" \in DOMAIN x

IsLeap(y) == (y % 4 = 0) /\ ((y % 100 # 0) \/ (y % 400 = 0))

DaysInMonth(y, m) ==
    IF m = 2 THEN (IF IsLeap(y) THEN 29 ELSE 28)
    ELSE IF m \in {4, 6, 9, 11} THEN 30 ELSE 31

\* date(y, m, d): raises ValueError for a day or month out of range
date(y, m, d) ==
    IF m \in 1..12 /\ d >= 1 /\ d <= DaysInMonth(y, m)
    THEN Date(y, m, d) ELSE ValueError

DateLT(a, b) ==
    \/ a.year < b.year
    \/ a.year = b.year /\ a.month < b.month
    \/ a.year = b.year /\ a.month = b.month /\ a.day < b.day

DateLE(a, b) == a = b \/ DateLT(a, b)

-----------------------------------------------------------------------------
(* _rollover_ano *)

\* a slip: ">=" where the code has ">"
rollover_ano_ge(dia, mes, fechado_em) ==
    LET ano == fechado_em.year
        dt  == date(ano, mes, dia)
    IN  IF IsRaise(dt) THEN dt
        ELSE IF DateLE(fechado_em, dt) THEN date(ano - 1, mes, dia)
        ELSE dt

rollover_ano(dia, mes, fechado_em) ==
    LET ano == fechado_em.year
        dt  == date(ano, mes, dia)
    IN  IF IsRaise(dt) THEN dt
        ELSE IF DateLT(fechado_em, dt) THEN date(ano - 1, mes, dia)
        ELSE dt

\* the DD/MM tokens RE_DATA_CURTA accepts are two digits each; the model
\* takes days 0..MaxDia and months 0..MaxMes, which covers every month
\* length and the out-of-range tokens on both sides
MaxDia == 32
MaxMes == 13

CloseDates ==
    { Date(2025, 1, 10), Date(2024, 2, 10), Date(2024, 2, 29),
      Date(2024, 12, 31), Date(2025, 3, 15), Date(2023, 3, 1) }

InitRollover ==
    /\ r_dia \in 0..MaxDia
    /\ r_mes \in 0..MaxMes
    /\ r_fech \in CloseDates
    /\ r_out = ValueError
    /\ r_pc = "ready"

IdleRollover ==
    /\ r_dia = 0
    /\ r_mes = 0
    /\ r_fech = Date(2025, 1, 10)
    /\ r_out = ValueError
    /\ r_pc = "off"

RolloverCall ==
    /\ r_pc = "ready"
    /\ r_out' = rollover_ano(r_dia, r_mes, r_fech)
    /\ r_pc' = "done"
    /\ UNCHANGED <<r_dia, r_mes, r_fech>>
    /\ UNCHANGED not_rollover

-----------------------------------------------------------------------------
(* The text.  A line is a sequence of tokens, the maximal runs of          *)
(* non-blank characters of the stripped line; a blank line is << >>.  A    *)
(* token is a string; the tables below give, for the tokens of the         *)
(* vocabulary, what the code's regular expressions and conversions read    *)
(* from their characters.                                                  *)

None == "None"
NoneInt == 0 - 1

\* tokens of the form \d{2}/\d{2}, with int() of the two groups
DDMM ==
    ("15/03" :> <<15, 3>>) @@ ("20/03" :> <<20, 3>>) @@ ("10/03" :> <<10, 3>>) @@
    ("05/03" :> <<5, 3>>) @@ ("31/12" :> <<31, 12>>) @@ ("29/02" :> <<29, 2>>) @@
    ("02/05" :> <<2, 5>>)

\* tokens of the form \d{2}/\d{2}/\d{4}, with the three numbers strptime reads
DDMMYYYY ==
    ("10/01/2025" :> <<10, 1, 2025>>) @@ ("20/01/2025" :> <<20, 1, 2025>>) @@
    ("05/01/2025" :> <<5, 1, 2025>>) @@ ("31/02/2025" :> <<31, 2, 2025>>)

\* the characters of the tokens made of sign, digits, "." and ","
Chars ==
    ("45,67" :> <<"4", "5", ",", "6", "7">>) @@
    ("120,00" :> <<"1", "2", "0", ",", "0", "0">>) @@
    ("-50,00" :> <<"-", "5", "0", ",", "0", "0">>) @@
    ("113,93" :> <<"1", "1", "3", ",", "9", "3">>) @@
    ("9,00" :> <<"9", ",", "0", "0">>) @@
    ("1,2,3" :> <<"1", ",", "2", ",", "3">>) @@
    ("165,67" :> <<"1", "6", "5", ",", "6", "7">>) @@
    ("1.234,56" :> <<"1", ".", "2", "3", "4", ",", "5", "6">>) @@
    ("-" :> <<"-">>) @@
    ("5,00" :> <<"5", ",", "0", "0">>) @@
    ("1234" :> <<"1", "2", "3", "4">>)

\* str.upper() of the tokens it changes
UpperTable == ("market" :> "MARKET") @@ ("Vencimento" :> "VENCIMENTO") @@
              ("Fatura" :> "FATURA") @@ ("fechada" :> "FECHADA") @@
              ("em" :> "EM") @@ ("final" :> "FINAL") @@ ("Final" :> "FINAL") @@
              ("Titular" :> "TITULAR")

upper(tok) == IF tok \in DOMAIN UpperTable THEN UpperTable[tok] ELSE tok

\* unidecode() of the tokens it changes
UnidecodeTable == ("LANÇAMENTO" :> "LANCAMENTO") @@ ("LANÇAMENTOS" :> "LANCAMENTOS")

unidecode(tok) == IF tok \in DOMAIN UnidecodeTable THEN UnidecodeTable[tok] ELSE tok

\* len() of the other tokens of the vocabulary
WordLen ==
    ("MARKET" :> 6) @@ ("market" :> 6) @@ ("STORE" :> 5) @@ ("PARC" :> 4) @@
    ("PGTO" :> 4) @@ ("DEBITO" :> 6) @@ ("CONTA" :> 5) @@ ("OPENAI" :> 6) @@
    ("CA" :> 2) @@ ("LOJA" :> 4) @@ ("FILIAL" :> 6) @@ ("COMPRAS" :> 7) @@
    ("NACIONAIS" :> 9) @@ ("TAXI" :> 4) @@ ("BAR" :> 3) @@ ("R$" :> 2) @@
    ("LANÇAMENTOS" :> 11) @@ ("NESTA" :> 5) @@ ("FATURA" :> 6) @@
    ("LANÇAMENTO" :> 10) @@ ("SUBTOTAL" :> 8) @@ ("TOTAL" :> 5) @@ ("DA" :> 2) @@
    ("Fatura" :> 6) @@ ("fechada" :> 7) @@ ("em" :> 2) @@ ("Vencimento" :> 10) @@
    ("Final" :> 5) @@ ("OUROCARD" :> 8) @@ ("VISA" :> 4) @@ ("ELO" :> 3) @@
    ("<60 characters of small print>" :> 60)

DDMMLen == 5
DDMMYYYYLen == 10

TokLen(tok) ==
    IF tok \in DOMAIN Chars THEN Len(Chars[tok])
    ELSE IF tok \in DOMAIN DDMM THEN DDMMLen
    ELSE IF tok \in DOMAIN DDMMYYYY THEN DDMMYYYYLen
    ELSE WordLen[tok]

\* the tokens of the vocabulary that are two or three capital letters
Caps23 == {"CA", "BAR", "DA", "ELO"}

Currency == {"R$", "US$", "USD", "$"}

Digits == {"0", "1", "2", "3", "4", "5", "6", "7", "8", "9"}

DigitVal == ("0" :> 0) @@ ("1" :> 1) @@ ("2" :> 2) @@ ("3" :> 3) @@ ("4" :> 4) @@
            ("5" :> 5) @@ ("6" :> 6) @@ ("7" :> 7) @@ ("8" :> 8) @@ ("9" :> 9)

RECURSIVE Flatten(_)
\* " ".join(lines) as one sequence of tokens
Flatten(ls) == IF ls = << >> THEN << >> ELSE Head(ls) \o Flatten(Tail(ls))

RECURSIVE SumLen(_)
SumLen(line) == IF line = << >> THEN 0 ELSE TokLen(Head(line)) + SumLen(Tail(line))

\* len() of a stripped line: its tokens and one blank between two of them
LineLen(line) == IF line = << >> THEN 0 ELSE SumLen(line) + Len(line) - 1

RECURSIVE SumLineLen(_)
SumLineLen(ls) == IF ls = << >> THEN 0 ELSE LineLen(Head(ls)) + SumLineLen(Tail(ls))

\* len(texto.strip()): the blank lines at both ends go, the newlines between
\* the remaining lines count
StripLen(txt) ==
    LET nb == {i \in 1..Len(txt) : txt[i] # << >>}
    IN  IF nb = {} THEN 0
        ELSE LET lo == CHOOSE i \in nb : \A j \in nb : i <= j
                 hi == CHOOSE i \in nb : \A j \in nb : j <= i
             IN  SumLineLen(SubSeq(txt, lo, hi)) + (hi - lo)

MinTexto == 30

-----------------------------------------------------------------------------
(* Decimal and parse_decimal_br *)

InvalidOperation == [raise |-> "InvalidOperation"]

RECURSIVE DigitsValue(_)
DigitsValue(ds) ==
    IF ds = << >> THEN 0
    ELSE DigitsValue(SubSeq(ds, 1, Len(ds) - 1)) * 10 + DigitVal[ds[Len(ds)]]

RECURSIVE Pow10(_)
Pow10(n) == IF n = 0 THEN 1 ELSE 10 * Pow10(n - 1)

\* Decimal(s) for a string of sign, digits and ".": the value coef / 10^scale
Decimal(cs) ==
    LET signed == cs # << >> /\ cs[1] \in {"+", "-"}
        body   == IF signed THEN Tail(cs) ELSE cs
        dots   == {i \in 1..Len(body) : body[i] = "."}
        digs   == SelectSeq(body, LAMBDA c : c \in Digits)
    IN  IF /\ \A i \in 1..Len(body) : body[i] \in Digits \cup {"."}
           /\ Cardinality(dots) <= 1
           /\ digs # << >>
        THEN [neg   |-> signed /\ cs[1] = "-",
              coef  |-> DigitsValue(digs),
              scale |-> IF dots = {} THEN 0
                        ELSE Len(body) - (CHOOSE i \in dots : TRUE)]
        ELSE InvalidOperation

parse_decimal_br(cs) ==
    LET s1 == SelectSeq(cs, LAMBDA c : c # ".")
        s2 == [i \in 1..Len(s1) |-> IF s1[i] = "," THEN "." ELSE s1[i]]
    IN  Decimal(s2)

DecNegative(v) == v.neg /\ v.coef > 0

\* int((valor * 100).to_integral_value()), rounding half to even
valor_cent(v) ==
    LET mag == IF v.scale <= 2 THEN v.coef * Pow10(2 - v.scale)
               ELSE LET p == Pow10(v.scale - 2)
                        q == v.coef \div p
                        r == v.coef % p
                    IN  IF 2 * r > p \/ (2 * r = p /\ q % 2 = 1) THEN q + 1 ELSE q
    IN  IF v.neg THEN 0 - mag ELSE mag

-----------------------------------------------------------------------------
(* the patterns of lancamentos.py, on a line of tokens *)

\* [+\-]?\s*[\d\.,]+ over a whole token
IsNumTok(tok) ==
    /\ tok \in DOMAIN Chars
    /\ LET cs   == Chars[tok]
           body == IF cs[1] \in {"+", "-"} THEN Tail(cs) ELSE cs
       IN  /\ body # << >>
           /\ \A i \in 1..Len(body) : body[i] \in Digits \cup {".", ","}

\* [+\-]?\s*\d at the start of a token
StartsNum(tok) ==
    \/ tok \in DOMAIN DDMM
    \/ /\ tok \in DOMAIN Chars
       /\ LET cs   == Chars[tok]
              body == IF cs[1] \in {"+", "-"} THEN Tail(cs) ELSE cs
          IN  body # << >> /\ body[1] \in Digits

RECURSIVE IsGrouped(_)
\* \d{1,3}(?:\.\d{3})* over a whole string
IsGrouped(cs) ==
    LET n == Len(cs)
    IN  \/ n \in 1..3 /\ \A i \in 1..n : cs[i] \in Digits
        \/ /\ n > 4
           /\ cs[n - 3] = "."
           /\ \A i \in (n - 2)..n : cs[i] \in Digits
           /\ IsGrouped(SubSeq(cs, 1, n - 4))

\* [+\-]?\s*\d{1,3}(?:\.\d{3})*(?:[.,]\d{2}) over a whole token
IsMoneyTok(tok) ==
    /\ tok \in DOMAIN Chars
    /\ LET cs   == Chars[tok]
           body == IF cs[1] \in {"+", "-"} THEN Tail(cs) ELSE cs
           n    == Len(body)
       IN  /\ n >= 4
           /\ body[n - 2] \in {".", ","}
           /\ body[n - 1] \in Digits /\ body[n] \in Digits
           /\ IsGrouped(SubSeq(body, 1, n - 3))

\* RE_DATA_CURTA.match(t)
RE_DATA_CURTA(line) == line # << >> /\ line[1] \in DOMAIN DDMM

\* RE_VALOR_FINAL.search(t): the token of group "valor", or None
RE_VALOR_FINAL(line) ==
    LET n == Len(line)
    IN  IF n >= 2 /\ line[n - 1] = "R$" /\ IsNumTok(line[n]) THEN line[n] ELSE None

\* RE_ANCHOR_LANCAMENTOS.search(raw)
RE_ANCHOR_LANCAMENTOS(line) ==
    \E i \in 1..(Len(line) - 2) :
        /\ unidecode(upper(line[i])) = "LANCAMENTOS"
        /\ upper(line[i + 1]) = "NESTA"
        /\ upper(line[i + 2]) = "FATURA"

\* RE_SKIP_VALUE_LINE.search(t)
RE_SKIP_VALUE_LINE(line) ==
    \/ \E i \in 1..Len(line) : upper(line[i]) = "SUBTOTAL"
    \/ \E i \in 1..(Len(line) - 1) :
           upper(line[i]) = "PGTO" /\ upper(line[i + 1]) = "DEBITO"
    \/ \E i \in 1..(Len(line) - 2) :
           /\ upper(line[i]) = "TOTAL"
           /\ upper(line[i + 1]) = "DA"
           /\ upper(line[i + 2]) = "FATURA"

\* RE_PGTO_DEBITO.search(s)
RE_PGTO_DEBITO(desc) ==
    \E i, j \in 1..Len(desc) :
        i < j /\ upper(desc[i]) = "PGTO" /\ upper(desc[j]) = "DEBITO"

\* RE_MOEDA_FIM.sub("", s).strip()
RE_MOEDA_FIM_sub(s) ==
    LET n == Len(s)
    IN  IF n >= 2 /\ s[n - 1] \in Currency /\ IsMoneyTok(s[n])
        THEN SubSeq(s, 1, n - 2) ELSE s

\* RE_SECAO.search(t): the alternatives the vocabulary can spell
RE_SECAO(line) ==
    /\ line # << >>
    /\ \/ upper(line[1]) \in {"PARCELADO", "PARCELADOS", "TARIFA", "TARIFAS",
                              "SEGURO", "SEGUROS", "ESTORNO", "ESTORNOS",
                              "ASSINATURAS", "SERVICOS", "SERVIÇOS"}
       \/ /\ Len(line) >= 2
          /\ upper(line[1]) = "COMPRAS"
          /\ upper(line[2]) \in {"NAC", "NACIONAIS", "INT", "INTERNACIONAIS"}

\* norm(s): unidecode when it can be imported, whitespace collapsed, upper
norm(s, uni) ==
    [i \in 1..Len(s) |-> upper(IF uni THEN unidecode(s[i]) ELSE s[i])]

\* _normalizar_secao(t)
normalizar_secao(line, uni) ==
    LET base == norm(line, uni)
        has(w) == \E i \in 1..Len(base) : base[i] = w
    IN  IF \E i \in 1..(Len(base) - 1) :
              base[i] = "COMPRAS" /\ base[i + 1] \in {"INT", "INTERNACIONAIS"}
        THEN "Compras Internacionais"
        ELSE IF \E i \in 1..(Len(base) - 1) :
              base[i] = "COMPRAS" /\ base[i + 1] \in {"NAC", "NACIONAIS"}
        THEN "Compras Nacionais"
        ELSE IF has("ASSINATURAS") THEN "Assinaturas/Serviços"
        ELSE IF has("PARCELADO") \/ has("PARCELADOS") THEN "Parcelados"
        ELSE IF has("TARIFA") \/ has("TARIFAS") THEN "Tarifas"
        ELSE IF has("SEGURO") \/ has("SEGUROS") THEN "Seguros"
        ELSE IF has("ESTORNO") \/ has("ESTORNOS") THEN "Estornos"
        ELSE IF has("SERVICOS") \/ has("SERVIÇOS") THEN "Serviços"
        ELSE IF has("OUTROS") THEN "Outros"
        ELSE "<capitalized words of the line>"

\* the token RE_PAIS_PRE_VALOR.search(s) takes as group "pais": its index, or 0
pais_pre_valor(s) ==
    LET pre == {i \in 2..(Len(s) - 2) :
                   s[i] \in Caps23 /\ s[i + 1] \in Currency /\ StartsNum(s[i + 2])}
    IN  IF pre = {} THEN 0 ELSE CHOOSE i \in pre : \A j \in pre : i <= j

\* RE_PAIS_FIM on the text left once the amount is gone
limpar_pais_fim(t2) ==
    IF Len(t2) >= 2 /\ t2[Len(t2)] \in Caps23
    THEN <<SubSeq(t2, 1, Len(t2) - 1), t2[Len(t2)]>>
    ELSE <<t2, None>>

\* the rest of _limpar_primeira_linha_sem_data once m_pre is known
limpar_com_pre(s, ipre) ==
    IF ipre # 0
    THEN <<RE_MOEDA_FIM_sub(SubSeq(s, 1, ipre - 1) \o SubSeq(s, ipre + 1, Len(s))),
           s[ipre]>>
    ELSE limpar_pais_fim(RE_MOEDA_FIM_sub(s))

\* _limpar_primeira_linha_sem_data(s): <<descricao_limpa, pais_detectado>>
limpar_primeira_linha_sem_data(s) ==
    IF s = << >> THEN << << >>, None >>
    ELSE limpar_com_pre(s, pais_pre_valor(s))

\* _hash_linha: sha1 of the string the six fields are joined into, taken as
\* injective: equal hashes are equal tuples of fields
hash_linha(d, v_cent, desc, cid, pais, etiqueta, uni) ==
    <<d, v_cent, norm(desc, uni), norm(cid, uni), norm(pais, uni), norm(etiqueta, uni)>>

\* _linhas_apos_ancora(texto)
linhas_apos_ancora(txt) ==
    LET anc == {i \in 1..Len(txt) : RE_ANCHOR_LANCAMENTOS(txt[i])}
    IN  IF anc = {} THEN txt
        ELSE SubSeq(txt, (CHOOSE i \in anc : \A j \in anc : i <= j) + 1, Len(txt))

-----------------------------------------------------------------------------
(* parse_lancamentos *)

EmptyMap == [h \in {} |-> 0]

\* contagem[h] of a defaultdict(int)
Count(cont, h) == IF h \in DOMAIN cont THEN cont[h] ELSE 0

\* a slip: the counter is read but never written back
Increment_lost(cont, h) == cont

\* contagem[h] += 1
Increment(cont, h) ==
    [x \in DOMAIN cont \cup {h} |-> IF x = h THEN Count(cont, h) + 1 ELSE cont[x]]

\* is_dup = ordem > 1
is_dup(ordem) == ordem > 1

\* a slip: the debit-payment test dropped from the discard rule
descarta_pgto_never(valor, desc) == FALSE

\* step 5 of flush_block: description has PGTO ... DEBITO and the amount is
\* negative
descarta_pgto(valor, desc) ==
    DecNegative(valor) /\ RE_PGTO_DEBITO([i \in 1..Len(desc) |-> upper(desc[i])])

\* what flush_block() leaves behind: the counter and the list of the call, or
\* the exception that ends the call
Flushed(cont, lins) == [raise |-> None, contagem |-> cont, linhas |-> lins]

FlushRaised(exc, cont, lins) == [raise |-> exc.raise, contagem |-> cont, linhas |-> lins]

\* a slip: the search keeps the last line that qualifies (no break)
value_line_last(block_texts) ==
    LET cands == {j \in 1..Len(block_texts) :
                     /\ ~RE_SKIP_VALUE_LINE(block_texts[j])
                     /\ RE_VALOR_FINAL(block_texts[j]) # None}
    IN  IF cands = {} THEN 0 ELSE CHOOSE j \in cands : \A k \in cands : k <= j

\* step 2 of flush_block: the first line that matches no skip phrase and ends
\* in an amount; its index, or 0
value_line(block_texts) ==
    LET cands == {j \in 1..Len(block_texts) :
                     /\ ~RE_SKIP_VALUE_LINE(block_texts[j])
                     /\ RE_VALOR_FINAL(block_texts[j]) # None}
    IN  IF cands = {} THEN 0 ELSE CHOOSE j \in cands : \A k \in cands : j <= k

\* step 4 of flush_block: the cleaned first line, the lines up to the value
\* line, and the fallbacks for an empty description
montar_descricao(limpa, primeira_sem_data, miolo) ==
    IF limpa \o miolo # << >> THEN limpa \o miolo
    ELSE IF RE_MOEDA_FIM_sub(primeira_sem_data) # << >>
    THEN RE_MOEDA_FIM_sub(primeira_sem_data)
    ELSE <<"LANÇAMENTO">>

\* step 6 of flush_block: where "PARC dd/dd" starts in the block up to the
\* value line, or 0
parc_index(bloco_ate_valor) ==
    LET parcs == {i \in 1..(Len(bloco_ate_valor) - 1) :
                     /\ upper(bloco_ate_valor[i]) = "PARC"
                     /\ bloco_ate_valor[i + 1] \in DOMAIN DDMM}
    IN  IF parcs = {} THEN 0 ELSE CHOOSE i \in parcs : \A k \in parcs : i <= k

\* the LancamentoBruto of step 8.  The field bloco is the line number n the
\* block starts at (the n of the (n, t) pairs of current_block);
\* LancamentoBruto has no such field, the model keeps it to tell the order
\* of the blocks.
LancamentoBruto(n, data_lcto, descricao, pais, secao, valor, etiqueta, parc, h, ordem) ==
    [data             |-> data_lcto,
     descricao        |-> descricao,
     cidade           |-> None,
     pais             |-> pais,
     secao            |-> secao,
     valor            |-> valor,
     etiqueta_parcela |-> etiqueta,
     parcela_num      |-> parc[1],
     parcela_total    |-> parc[2],
     hash_linha       |-> h,
     hash_ordem       |-> ordem,
     is_duplicado     |-> is_dup(ordem),
     bloco            |-> n]

\* step 8 of flush_block, the counter already incremented
flush_append(n, data_lcto, descricao, pais, secao, valor, etiqueta, parc, h, cont2, lins) ==
    Flushed(cont2,
            Append(lins, LancamentoBruto(n, data_lcto, descricao, pais, secao, valor,
                                         etiqueta, parc, h, Count(cont2, h))))

\* step 8 of flush_block: the hash and the dedup counter
flush_hash(n, data_lcto, descricao, pais, secao, valor, etiqueta, parc, h, cont, lins) ==
    flush_append(n, data_lcto, descricao, pais, secao, valor, etiqueta, parc, h,
                 Increment(cont, h), lins)

\* steps 6 and 7 of flush_block, ip the index of the installment tag
flush_parcela(n, data_lcto, descricao, pais, secao, valor, ate_valor, ip, cont, lins, uni) ==
    flush_hash(n, data_lcto, descricao, pais, secao, valor,
               IF ip = 0 THEN << >> ELSE SubSeq(ate_valor, ip, ip + 1),
               IF ip = 0 THEN <<NoneInt, NoneInt>> ELSE DDMM[ate_valor[ip + 1]],
               hash_linha(data_lcto, valor_cent(valor), descricao, << >>,
                          IF pais = None THEN << >> ELSE <<pais>>,
                          IF ip = 0 THEN << >> ELSE SubSeq(ate_valor, ip, ip + 1), uni),
               cont, lins)

\* step 5 of flush_block and what follows it
flush_descrito(n, block_texts, last_idx, data_lcto, valor, descricao, pais, secao, cont, lins, uni) ==
    IF descarta_pgto(valor, descricao) THEN Flushed(cont, lins)
    ELSE flush_parcela(n, data_lcto, descricao, pais, secao, valor,
                       Flatten(SubSeq(block_texts, 1, last_idx)),
                       parc_index(Flatten(SubSeq(block_texts, 1, last_idx))),
                       cont, lins, uni)

\* step 4 of flush_block, limpa the pair _limpar_primeira_linha_sem_data gave
flush_limpo(n, block_texts, last_idx, data_lcto, valor, limpa, secao, cont, lins, uni) ==
    flush_descrito(n, block_texts, last_idx, data_lcto, valor,
                   montar_descricao(limpa[1], Tail(block_texts[1]),
                                    Flatten(SubSeq(block_texts, 2, last_idx - 1))),
                   limpa[2], secao, cont, lins, uni)

\* step 3 of flush_block: the amount converted, or the conversion raising
flush_valor(n, block_texts, last_idx, data_lcto, valor, secao, cont, lins, uni) ==
    IF IsRaise(valor) THEN FlushRaised(valor, cont, lins)
    ELSE flush_limpo(n, block_texts, last_idx, data_lcto, valor,
                     limpar_primeira_linha_sem_data(Tail(block_texts[1])),
                     secao, cont, lins, uni)

\* steps 1 and 2 of flush_block: the date resolved (or raising), the value
\* line found (or the block dropped)
flush_data(n, block_texts, data_lcto, last_idx, secao, cont, lins, uni) ==
    IF IsRaise(data_lcto) THEN FlushRaised(data_lcto, cont, lins)
    ELSE IF last_idx = 0 THEN Flushed(cont, lins)
    ELSE flush_valor(n, block_texts, last_idx, data_lcto,
                     parse_decimal_br(Chars[RE_VALOR_FINAL(block_texts[last_idx])]),
                     secao, cont, lins, uni)

flush_texts(n, block_texts, secao, cont, lins, fechado_em, uni) ==
    IF ~RE_DATA_CURTA(block_texts[1]) THEN Flushed(cont, lins)
    ELSE flush_data(n, block_texts,
                    rollover_ano(DDMM[block_texts[1][1]][1], DDMM[block_texts[1][1]][2],
                                 fechado_em),
                    value_line(block_texts), secao, cont, lins, uni)

\* flush_block() on the block, the section and the counter of the call
flush_block(block, secao, cont, lins, fechado_em, uni) ==
    IF block = << >> THEN Flushed(cont, lins)
    ELSE flush_texts(block[1][1], [i \in 1..Len(block) |-> block[i][2]],
                     secao, cont, lins, fechado_em, uni)

RECURSIVE InsertAfterEqual(_, _)
\* x put behind every element whose date is not later than its own
InsertAfterEqual(sorted, x) ==
    IF sorted = << >> THEN <<x>>
    ELSE IF DateLT(x.data, Head(sorted).data) THEN <<x>> \o sorted
    ELSE <<Head(sorted)>> \o InsertAfterEqual(Tail(sorted), x)

RECURSIVE SortFrom(_, _)
SortFrom(sorted, rest) ==
    IF rest = << >> THEN sorted
    ELSE SortFrom(InsertAfterEqual(sorted, Head(rest)), Tail(rest))

RECURSIVE Reverse(_)
Reverse(s) == IF s = << >> THEN << >> ELSE Reverse(Tail(s)) \o <<Head(s)>>

\* a slip: a sort that does not keep the order of equal dates
sort_by_data_unstable(lins) == SortFrom(<< >>, Reverse(lins))

\* linhas.sort(key=lambda x: x.data): list.sort is stable
sort_by_data(lins) == SortFrom(<< >>, lins)

MaxLines == 3
MaxCalls == 2

ParseLines ==
    { <<"15/03", "MARKET", "R$", "45,67">>,
      <<"15/03", "market", "R$", "45,67">>,
      <<"20/03", "STORE", "PARC", "02/05", "R$", "120,00">>,
      <<"10/03", "PGTO", "DEBITO", "R$", "-50,00">>,
      <<"10/03", "PGTO", "CONTA", "DEBITO", "R$", "-50,00">>,
      <<"31/12", "OPENAI", "CA", "R$", "113,93">>,
      <<"05/03", "LOJA">>,
      <<"PGTO", "CONTA", "DEBITO", "R$", "-50,00">>,
      <<"COMPRAS", "NACIONAIS">>,
      << >>,
      <<"29/02", "TAXI", "R$", "9,00">>,
      <<"15/03", "BAR", "R$", "1,2,3">>,
      <<"15/03", "R$", "45,67">>,
      <<"LANÇAMENTOS", "NESTA", "FATURA">> }

Textos == UNION {[1..k -> ParseLines] : k \in 0..MaxLines}

ParseCloseDates == {Date(2025, 1, 10), Date(2024, 3, 31)}

IdleParse ==
    /\ texto = << >>
    /\ p_fech = Date(2025, 1, 10)
    /\ has_unidecode = TRUE
    /\ p_call = 0
    /\ p_pc = "off"
    /\ all_lines = << >>
    /\ p_pos = 0
    /\ current_block = << >>
    /\ current_secao = None
    /\ contagem = EmptyMap
    /\ linhas = << >>
    /\ p_ret = << >>

InitParse ==
    /\ texto \in Textos
    /\ p_fech \in ParseCloseDates
    /\ has_unidecode \in BOOLEAN
    /\ p_call = 1
    /\ p_pc = "idle"
    /\ all_lines = << >>
    /\ p_pos = 0
    /\ current_block = << >>
    /\ current_secao = None
    /\ contagem = EmptyMap
    /\ linhas = << >>
    /\ p_ret = << >>

\* the call starts: the early return on a short text, or the locals set up,
\* the counter of the call starting as cont0
ParseStartWith(cont0) ==
    /\ p_pc = "idle"
    /\ IF texto = << >> \/ StripLen(texto) < MinTexto
       THEN /\ p_pc' = "done"
            /\ p_ret' = Append(p_ret, [raise |-> None, linhas |-> << >>])
            /\ UNCHANGED <<all_lines, p_pos, current_block, current_secao,
                           contagem, linhas>>
       ELSE /\ p_pc' = "scan"
            /\ linhas' = << >>
            /\ contagem' = cont0
            /\ all_lines' = linhas_apos_ancora(texto)
            /\ current_block' = << >>
            /\ current_secao' = None
            /\ p_pos' = 1
            /\ UNCHANGED p_ret
    /\ UNCHANGED <<texto, p_fech, has_unidecode, p_call>>
    /\ UNCHANGED not_parse

\* a slip: the counter kept at module level, alive from one call to the next
ParseStart_stale == ParseStartWith(contagem)

ParseStart == ParseStartWith(EmptyMap)

\* a date line: the open block is resolved and the line opens the next one
ParseDateLine(f, t) ==
    IF f.raise # None
    THEN /\ p_pc' = "raised"
         /\ p_ret' = Append(p_ret, [raise |-> f.raise, linhas |-> << >>])
         /\ current_block' = << >>
         /\ UNCHANGED <<current_secao, contagem, linhas>>
    ELSE /\ contagem' = f.contagem
         /\ linhas' = f.linhas
         /\ current_block' = << <<p_pos, t>> >>
         /\ UNCHANGED <<p_pc, current_secao, p_ret>>

\* a slip: a section header goes into the open block as well
ParseLineOf_header_kept(t) ==
    IF t = << >>
    THEN UNCHANGED <<p_pc, current_block, current_secao, contagem, linhas, p_ret>>
    ELSE IF RE_DATA_CURTA(t)
    THEN ParseDateLine(flush_block(current_block, current_secao, contagem,
                                   linhas, p_fech, has_unidecode), t)
    ELSE /\ current_secao' = IF RE_SECAO(t) THEN normalizar_secao(t, has_unidecode)
                             ELSE current_secao
         /\ current_block' = IF current_block # << >>
                             THEN Append(current_block, <<p_pos, t>>)
                             ELSE current_block
         /\ UNCHANGED <<p_pc, contagem, linhas, p_ret>>

\* the body of the loop over all_lines for the line t
ParseLineOf(t) ==
    IF t = << >>
    THEN UNCHANGED <<p_pc, current_block, current_secao, contagem, linhas, p_ret>>
    ELSE IF ~RE_DATA_CURTA(t) /\ RE_SECAO(t)
    THEN /\ current_secao' = normalizar_secao(t, has_unidecode)
         /\ UNCHANGED <<p_pc, current_block, contagem, linhas, p_ret>>
    ELSE IF RE_DATA_CURTA(t)
    THEN ParseDateLine(flush_block(current_block, current_secao, contagem,
                                   linhas, p_fech, has_unidecode), t)
    ELSE /\ current_block' = IF current_block # << >>
                             THEN Append(current_block, <<p_pos, t>>)
                             ELSE current_block
         /\ UNCHANGED <<p_pc, current_secao, contagem, linhas, p_ret>>

\* one turn of the loop over all_lines
ParseLine ==
    /\ p_pc = "scan"
    /\ p_pos <= Len(all_lines)
    /\ ParseLineOf(all_lines[p_pos])
    /\ p_pos' = p_pos + 1
    /\ UNCHANGED <<texto, p_fech, has_unidecode, p_call, all_lines>>
    /\ UNCHANGED not_parse

\* a slip: no flush_block() behind the loop
ParseReturn_no_flush(f) ==
    /\ p_pc' = "done"
    /\ linhas' = sort_by_data(linhas)
    /\ p_ret' = Append(p_ret, [raise |-> None, linhas |-> linhas'])
    /\ UNCHANGED contagem

\* the last flush_block(), then the sort and the return
ParseReturn(f) ==
    IF f.raise # None
    THEN /\ p_pc' = "raised"
         /\ p_ret' = Append(p_ret, [raise |-> f.raise, linhas |-> << >>])
         /\ UNCHANGED <<contagem, linhas>>
    ELSE /\ p_pc' = "done"
         /\ contagem' = f.contagem
         /\ linhas' = sort_by_data(f.linhas)
         /\ p_ret' = Append(p_ret, [raise |-> None, linhas |-> linhas'])

\* the end of the stream
ParseFinish ==
    /\ p_pc = "scan"
    /\ p_pos > Len(all_lines)
    /\ ParseReturn(flush_block(current_block, current_secao, contagem,
                               linhas, p_fech, has_unidecode))
    /\ current_block' = << >>
    /\ UNCHANGED <<texto, p_fech, has_unidecode, p_call, all_lines, p_pos,
                   current_secao>>
    /\ UNCHANGED not_parse

\* the caller parses the same text again
ParseAgain ==
    /\ p_pc \in {"done", "raised"}
    /\ p_call < MaxCalls
    /\ p_call' = p_call + 1
    /\ p_pc' = "idle"
    /\ UNCHANGED <<texto, p_fech, has_unidecode, all_lines, p_pos, current_block,
                   current_secao, contagem, linhas, p_ret>>
    /\ UNCHANGED not_parse

-----------------------------------------------------------------------------
(* parse_dados_fatura.  Its patterns are compiled with (?s) and run over   *)
(* the whole text, so they read the text as one stream of tokens, each     *)
(* with the offset of its first character.                                 *)

LineStream(line, base) ==
    [k \in 1..Len(line) |->
        [tok |-> line[k], off |-> base + SumLen(SubSeq(line, 1, k - 1)) + (k - 1)]]

RECURSIVE StreamFrom(_, _, _)
StreamFrom(txt, l, base) ==
    IF l > Len(txt) THEN << >>
    ELSE LineStream(txt[l], base) \o StreamFrom(txt, l + 1, base + LineLen(txt[l]) + 1)

Stream(txt) == StreamFrom(txt, 1, 0)

First(S) == IF S = {} THEN 0 ELSE CHOOSE i \in S : \A j \in S : i <= j

\* PAT_FECHAMENTO.search: the index of the date token of the match, or 0
PAT_FECHAMENTO(st) ==
    First({i \in 3..Len(st) :
              /\ upper(st[i - 2].tok) = "FECHADA"
              /\ upper(st[i - 1].tok) = "EM"
              /\ st[i].tok \in DOMAIN DDMMYYYY})

MaxGapVencimento == 80

\* the date tokens that start at most 80 characters behind the word at i
DatesAfter(st, i) ==
    {j \in (i + 1)..Len(st) :
        /\ i # 0
        /\ st[j].tok \in DOMAIN DDMMYYYY
        /\ st[j].off - (st[i].off + TokLen(st[i].tok)) <= MaxGapVencimento}

\* PAT_VENCIMENTO.search: the index of the date token of the match, or 0
PAT_VENCIMENTO(st) ==
    First(DatesAfter(st, First({i \in 1..Len(st) :
                                   /\ upper(st[i].tok) = "VENCIMENTO"
                                   /\ DatesAfter(st, i) # {}})))

Is4Digits(tok) ==
    /\ tok \in DOMAIN Chars
    /\ Len(Chars[tok]) = 4
    /\ \A k \in 1..4 : Chars[tok][k] \in Digits

\* PAT_FINAL_CARTAO.search: the index of the four digits of the match, or 0
PAT_FINAL_CARTAO(st) ==
    First({i \in 2..Len(st) : upper(st[i - 1].tok) = "FINAL" /\ Is4Digits(st[i].tok)})

\* the text R\$\s*([+\-]?\s*[\d\.,]+) captures at the R$ of index i: its
\* characters, or << >> when the pattern does not match there
AmountAfter(toks, i) ==
    IF i = 0 THEN << >>
    ELSE IF i + 1 <= Len(toks) /\ IsNumTok(toks[i + 1]) THEN Chars[toks[i + 1]]
    ELSE IF /\ i + 2 <= Len(toks)
            /\ toks[i + 1] \in {"+", "-"}
            /\ IsNumTok(toks[i + 2]) /\ Chars[toks[i + 2]][1] \notin {"+", "-"}
    THEN <<toks[i + 1], " ">> \o Chars[toks[i + 2]]
    ELSE << >>

\* the R$ with an amount behind them that follow the phrase ending at i
TotalsAfter(toks, i) ==
    {j \in (i + 1)..Len(toks) : i # 0 /\ toks[j] = "R$" /\ AmountAfter(toks, j) # << >>}

\* PAT_TOTAL_DA_FATURA.search(texto_pos_anchor): the characters of group 1,
\* or << >> without a match
PAT_TOTAL_DA_FATURA(toks) ==
    AmountAfter(toks,
        First(TotalsAfter(toks, First({i \in 3..Len(toks) :
                                          /\ upper(toks[i - 2]) = "TOTAL"
                                          /\ upper(toks[i - 1]) = "DA"
                                          /\ upper(toks[i]) = "FATURA"
                                          /\ TotalsAfter(toks, i) # {}}))))

\* PAT_ANCHOR_LANCAMENTOS.search(raw)
PAT_ANCHOR_LANCAMENTOS(line) ==
    \E i \in 1..(Len(line) - 2) :
        /\ unidecode(upper(line[i])) = "LANCAMENTOS"
        /\ upper(line[i + 1]) = "NESTA"
        /\ upper(line[i + 2]) = "FATURA"

\* a slip: the text is not cut at the anchor
texto_apos_ancora_uncut(txt) == [is_texto |-> FALSE, linhas |-> txt]

\* _texto_apos_ancora(texto): the lines behind the first anchor line, or the
\* text itself (the same object) without an anchor
texto_apos_ancora(txt) ==
    IF \E i \in 1..Len(txt) : PAT_ANCHOR_LANCAMENTOS(txt[i])
    THEN [is_texto |-> FALSE,
          linhas   |-> SubSeq(txt, First({i \in 1..Len(txt) : PAT_ANCHOR_LANCAMENTOS(txt[i])}) + 1,
                              Len(txt))]
    ELSE [is_texto |-> TRUE, linhas |-> txt]

OBS_VENCIMENTO == "Vencimento anterior ao fechamento. Verificar PDF."
OBS_BANDEIRA_FORA == "Bandeira detectada fora do cabeçalho OUROCARD; verifique se está correta."
OBS_SEM_BANDEIRA == "Bandeira do cartão não detectada no PDF."
OBS_SEM_ANCORA == "Âncora 'Lançamentos nesta fatura' não encontrada; total buscado no texto inteiro."
OBS_SEM_TOTAL == "Total da Fatura (após a âncora) não encontrado no PDF."

\* _extrair_bandeira(texto): <<bandeira, obs>>
extrair_bandeira(toks) ==
    LET ouro == First({i \in 2..Len(toks) :
                          /\ upper(toks[i - 1]) = "OUROCARD"
                          /\ upper(toks[i]) \in {"VISA", "MASTERCARD", "ELO", "AMEX", "PLATINUM"}})
        gen  == First({i \in 1..Len(toks) :
                          upper(toks[i]) \in {"VISA", "MASTERCARD", "ELO", "AMEX", "HIPERCARD"}})
    IN  IF ouro # 0 THEN <<upper(toks[ouro]), << >> >>
        ELSE IF gen # 0 THEN <<upper(toks[gen]), <<OBS_BANDEIRA_FORA>> >>
        ELSE <<None, <<OBS_SEM_BANDEIRA>> >>

\* datetime.strptime(s, "%d/%m/%Y").date()
strptime(tok) == date(DDMMYYYY[tok][3], DDMMYYYY[tok][2], DDMMYYYY[tok][1])

NoTotal == [none |-> TRUE]

IsNone(x) == "none" \in DOMAIN x

\* a slip: the anomaly is not recorded
obs_vencimento_dropped(vencimento_em, fechado_em) == << >>

\* the observation of a due date before the close date
obs_vencimento(vencimento_em, fechado_em) ==
    IF DateLT(vencimento_em, fechado_em) THEN <<OBS_VENCIMENTO>> ELSE << >>

\* the return of parse_dados_fatura
DadosFatura(txt, cartao_final, band, fechado_em, vencimento_em, total, obs) ==
    [emissor       |-> "Banco do Brasil",
     cartao_final  |-> cartao_final,
     bandeira      |-> band,
     fechado_em    |-> fechado_em,
     vencimento_em |-> vencimento_em,
     competencia   |-> Date(fechado_em.year, fechado_em.month, 1),
     total         |-> total,
     arquivo_hash  |-> txt,
     observacoes   |-> obs]

\* the total converted (or the conversion raising), and the return
dados_total(txt, cartao_final, band, fechado_em, vencimento_em, m_total, total, obs) ==
    IF m_total # << >> /\ IsRaise(total) THEN total
    ELSE DadosFatura(txt, cartao_final, band[1], fechado_em, vencimento_em,
                     IF m_total # << >> THEN total ELSE NoTotal,
                     obs \o (IF m_total # << >> THEN << >> ELSE <<OBS_SEM_TOTAL>>))

\* the brand and the search of the total behind the anchor
dados_ancora(txt, cartao_final, band, fechado_em, vencimento_em, pos_anchor, obs) ==
    dados_total(txt, cartao_final, band, fechado_em, vencimento_em,
                PAT_TOTAL_DA_FATURA(Flatten(pos_anchor.linhas)),
                parse_decimal_br(PAT_TOTAL_DA_FATURA(Flatten(pos_anchor.linhas))),
                obs \o band[2] \o (IF pos_anchor.is_texto THEN <<OBS_SEM_ANCORA>> ELSE << >>))

\* the two dates converted (or strptime raising) and compared
dados_datas(txt, cartao_final, fechado_em, vencimento_em) ==
    IF IsRaise(fechado_em) THEN fechado_em
    ELSE IF IsRaise(vencimento_em) THEN vencimento_em
    ELSE dados_ancora(txt, cartao_final, extrair_bandeira(Flatten(txt)),
                      fechado_em, vencimento_em, texto_apos_ancora(txt),
                      obs_vencimento(vencimento_em, fechado_em))

\* the three required searches, and the ValueError when one finds nothing
dados_achados(txt, st, m_fech, m_venc, m_final) ==
    IF m_fech = 0 \/ m_venc = 0 \/ m_final = 0 THEN ValueError
    ELSE dados_datas(txt, st[m_final].tok, strptime(st[m_fech].tok), strptime(st[m_venc].tok))

parse_dados_fatura(txt) ==
    IF txt = << >> \/ StripLen(txt) < MinTexto THEN ValueError
    ELSE dados_achados(txt, Stream(txt), PAT_FECHAMENTO(Stream(txt)),
                       PAT_VENCIMENTO(Stream(txt)), PAT_FINAL_CARTAO(Stream(txt)))

MaxHdrLines == 4

HdrLines ==
    { <<"Fatura", "fechada", "em", "10/01/2025", "Final", "1234">>,
      <<"fechada", "em", "31/02/2025", "Final", "1234">>,
      <<"Vencimento", "20/01/2025">>,
      <<"Vencimento", "05/01/2025">>,
      <<"Vencimento">>,
      <<"Final", "1234">>,
      <<"OUROCARD", "VISA">>,
      <<"LANÇAMENTOS", "NESTA", "FATURA">>,
      <<"TOTAL", "DA", "FATURA", "R$", "165,67">>,
      <<"TOTAL", "DA", "FATURA", "R$", "-", "5,00">>,
      <<"<60 characters of small print>", "ELO">> }

HdrTextos == UNION {[1..k -> HdrLines] : k \in 0..MaxHdrLines}

IdleHeader ==
    /\ h_texto = << >>
    /\ h_out = ValueError
    /\ h_pc = "off"

InitHeader ==
    /\ h_texto \in HdrTextos
    /\ h_out = ValueError
    /\ h_pc = "ready"

HeaderCall ==
    /\ h_pc = "ready"
    /\ h_out' = parse_dados_fatura(h_texto)
    /\ h_pc' = "done"
    /\ UNCHANGED h_texto
    /\ UNCHANGED not_header

-----------------------------------------------------------------------------
(* agrupar_parcelados.  A description is its sequence of tokens, a date    *)
(* the number of its day, an amount its number of cents.  The descriptions *)
(* of the model hold no "<n> de <n>", no "em <n>x" and no digits behind an *)
(* "<n>x", so RE_DE_FORM, RE_EM_X and RE_X_PAIR match nothing.             *)

MIN_DIAS_MES == 20
MAX_DIAS_MES == 38
TOLERANCIA_VALOR_ABS == 50

\* the tokens RE_FRAC matches, with int() of its two groups
Frac == ("01/03" :> <<1, 3>>) @@ ("02/03" :> <<2, 3>>)

\* the tokens RE_X_SIMPLE matches
XSimple == {"2X", "2x"}

\* the tokens RE_WORD_PARC matches
WordParc == {"PARC", "PARC.", "PARCELA", "PARCELAS", "PARCELADO", "PARCELADA"}

\* what re.sub(r'[^A-Z0-9 ]+', ' ', t) makes of the tokens it changes
SemSimbolos == ("01/03" :> <<"01", "03">>) @@ ("02/03" :> <<"02", "03">>) @@ ("PARC." :> <<"PARC">>)

\* the tokens PADROES_LIXO blanks once the symbols are gone
PADROES_LIXO == {"BRASIL", "BRASILIA", "BR", "SP", "RJ", "MG", "DF"}

sem_simbolos(tok) == IF tok \in DOMAIN SemSimbolos THEN SemSimbolos[tok] ELSE <<tok>>

\* core.utils.normaliza.normalizar(texto)
normalizar(desc) ==
    SelectSeq(Flatten([i \in 1..Len(desc) |-> sem_simbolos(unidecode(upper(desc[i])))]),
              LAMBDA tok : tok \notin PADROES_LIXO)

\* a token the installment patterns of _try_normalizar remove
IsParcelaTok(tok) == tok \in DOMAIN Frac \/ tok \in XSimple \/ tok \in WordParc

\* _try_normalizar(txt): normalizar, or strip().upper() when its import
\* fails, with the installment tokens removed
try_normalizar(desc, uni) ==
    SelectSeq(IF uni THEN normalizar(desc) ELSE [i \in 1..Len(desc) |-> upper(desc[i])],
              LAMBDA tok : ~IsParcelaTok(tok))

\* _extract_num_total(desc)
extract_num_total(desc) ==
    IF \E i \in 1..Len(desc) : desc[i] \in DOMAIN Frac
    THEN Frac[desc[First({i \in 1..Len(desc) : desc[i] \in DOMAIN Frac})]]
    ELSE <<NoneInt, NoneInt>>

\* _tem_padrao_parcelado(texto)
tem_padrao_parcelado(desc) ==
    \E i \in 1..Len(desc) :
        desc[i] \in DOMAIN Frac \/ upper(desc[i]) \in XSimple \/ upper(desc[i]) \in WordParc

\* _eh_candidato(l)
eh_candidato(l) ==
    \/ tem_padrao_parcelado(l.descricao)
    \/ l.etiqueta_parcela # None
    \/ l.parcela_total > 0

\* a slip: no upper end of the window
is_next_month_open(prev, curr) == MIN_DIAS_MES <= curr - prev

\* a slip: the lower end of the window left out
is_next_month_strict(prev, curr) ==
    MIN_DIAS_MES < curr - prev /\ curr - prev <= MAX_DIAS_MES

\* _is_next_month(prev, curr)
is_next_month(prev, curr) ==
    MIN_DIAS_MES <= curr - prev /\ curr - prev <= MAX_DIAS_MES

\* the comparison of two sort keys, tuples of integers
RECURSIVE KeyLT(_, _)
KeyLT(a, b) ==
    IF a = << >> \/ b = << >> THEN FALSE
    ELSE IF Head(a) < Head(b) THEN TRUE
    ELSE IF Head(a) > Head(b) THEN FALSE
    ELSE KeyLT(Tail(a), Tail(b))

RECURSIVE InsertKeyed(_, _)
InsertKeyed(sorted, x) ==
    IF sorted = << >> THEN <<x>>
    ELSE IF KeyLT(x.key, Head(sorted).key) THEN <<x>> \o sorted
    ELSE <<Head(sorted)>> \o InsertKeyed(Tail(sorted), x)

RECURSIVE InsertKeyedReverse(_, _)
InsertKeyedReverse(sorted, x) ==
    IF sorted = << >> THEN <<x>>
    ELSE IF KeyLT(Head(sorted).key, x.key) THEN <<x>> \o sorted
    ELSE <<Head(sorted)>> \o InsertKeyedReverse(Tail(sorted), x)

RECURSIVE SortKeyed(_, _, _)
SortKeyed(sorted, rest, reverse) ==
    IF rest = << >> THEN [i \in 1..Len(sorted) |-> sorted[i].val]
    ELSE SortKeyed(IF reverse THEN InsertKeyedReverse(sorted, Head(rest))
                   ELSE InsertKeyed(sorted, Head(rest)),
                   Tail(rest), reverse)

RECURSIVE chain_fold_overlap(_, _, _)
\* a slip: the chain opened after a break keeps the last item of the chain
\* it follows
chain_fold_overlap(rest, chain, chains) ==
    IF rest = << >> THEN (IF Len(chain) >= 2 THEN Append(chains, chain) ELSE chains)
    ELSE IF is_next_month(chain[Len(chain)].data, Head(rest).data)
    THEN chain_fold_overlap(Tail(rest), Append(chain, Head(rest)), chains)
    ELSE chain_fold_overlap(Tail(rest), <<chain[Len(chain)], Head(rest)>>,
                            IF Len(chain) >= 2 THEN Append(chains, chain) ELSE chains)

RECURSIVE chain_fold(_, _, _)
\* the loop of _chain_by_month_and_value and the test behind it
chain_fold(rest, chain, chains) ==
    IF rest = << >> THEN (IF Len(chain) >= 2 THEN Append(chains, chain) ELSE chains)
    ELSE IF is_next_month(chain[Len(chain)].data, Head(rest).data)
    THEN chain_fold(Tail(rest), Append(chain, Head(rest)), chains)
    ELSE chain_fold(Tail(rest), <<Head(rest)>>,
                    IF Len(chain) >= 2 THEN Append(chains, chain) ELSE chains)

\* a slip: the id left out of the sort key, rows of one date staying in the
\* order they were supplied in
sorted_by_data_only(items) ==
    SortKeyed(<< >>, [i \in 1..Len(items) |-> [key |-> <<items[i].data>>, val |-> items[i]]], FALSE)

\* sorted(items, key=lambda x: (x.data, x.id))
sorted_by_data_id(items) ==
    SortKeyed(<< >>, [i \in 1..Len(items) |-> [key |-> <<items[i].data, items[i].id>>, val |-> items[i]]], FALSE)

\* _chain_by_month_and_value(items)
chain_by_month_and_value(items) ==
    IF items = << >> THEN << >>
    ELSE chain_fold(Tail(sorted_by_data_id(items)), <<Head(sorted_by_data_id(items))>>, << >>)

RECURSIVE SumValor(_)
SumValor(ch) == IF ch = << >> THEN 0 ELSE Head(ch).valor + SumValor(Tail(ch))

\* _q2(num / den): to the cent, ROUND_HALF_UP (ties away from zero)
q2_div(num, den) ==
    IF num >= 0 THEN (2 * num + den) \div (2 * den)
    ELSE 0 - ((2 * (0 - num) + den) \div (2 * den))

\* min(x.data for x in ch)
MinData(ch) == CHOOSE d \in {ch[i].data : i \in 1..Len(ch)} : \A i \in 1..Len(ch) : d <= ch[i].data

\* a slip: the purchase date left out of the identity
make_group_id_no_date(cartao_id, data_ref, desc_base, val_bucket, parcela_total) ==
    <<cartao_id, 0, desc_base, val_bucket, IF parcela_total = NoneInt THEN 0 ELSE parcela_total>>

\* _make_group_id: the fields the identity is hashed from
make_group_id(cartao_id, data_ref, desc_base, val_bucket, parcela_total) ==
    <<cartao_id, data_ref, desc_base, val_bucket, IF parcela_total = NoneInt THEN 0 ELSE parcela_total>>

\* the GrupoParcelado flush_sub appends for the chain ch of the bucket key
GrupoParcelado(key, ch) ==
    [group_id            |-> make_group_id(key[1], MinData(ch), key[2], q2_div(SumValor(ch), Len(ch)), key[3]),
     data_compra         |-> MinData(ch),
     desc_base           |-> key[2],
     parcela_total       |-> key[3],
     valor_parcela_medio |-> q2_div(SumValor(ch), Len(ch)),
     valor_total_compra  |-> SumValor(ch),
     qtd_parcelas        |-> Len(ch),
     lancamento_ids      |-> [i \in 1..Len(ch) |-> ch[i].id]]

\* the groups of the chains
grupos_das_cadeias(key, chains) == [i \in 1..Len(chains) |-> GrupoParcelado(key, chains[i])]

\* flush_sub(): the groups of one value sub-bucket
flush_sub(key, sub) == grupos_das_cadeias(key, chain_by_month_and_value(sub))

Abs(x) == IF x < 0 THEN 0 - x ELSE x

RECURSIVE sub_buckets_running(_, _, _, _, _)
\* a slip: the reference follows the last item added
sub_buckets_running(key, items, sub, ref, grupos) ==
    IF items = << >> THEN grupos \o (IF sub = << >> THEN << >> ELSE flush_sub(key, sub))
    ELSE IF sub = << >> THEN sub_buckets_running(key, Tail(items), <<Head(items)>>, Head(items).valor, grupos)
    ELSE IF Abs(Head(items).valor - ref) <= TOLERANCIA_VALOR_ABS
    THEN sub_buckets_running(key, Tail(items), Append(sub, Head(items)), Head(items).valor, grupos)
    ELSE sub_buckets_running(key, Tail(items), <<Head(items)>>, Head(items).valor,
                             grupos \o flush_sub(key, sub))

RECURSIVE sub_buckets(_, _, _, _, _)
\* the loop over items_sorted: the groups of one bucket
sub_buckets(key, items, sub, ref, grupos) ==
    IF items = << >> THEN grupos \o (IF sub = << >> THEN << >> ELSE flush_sub(key, sub))
    ELSE IF sub = << >> THEN sub_buckets(key, Tail(items), <<Head(items)>>, Head(items).valor, grupos)
    ELSE IF Abs(Head(items).valor - ref) <= TOLERANCIA_VALOR_ABS
    THEN sub_buckets(key, Tail(items), Append(sub, Head(items)), ref, grupos)
    ELSE sub_buckets(key, Tail(items), <<Head(items)>>, Head(items).valor,
                     grupos \o flush_sub(key, sub))

\* sorted(items_bucket, key=lambda x: _q2(x.valor))
sorted_by_valor(items) ==
    SortKeyed(<< >>, [i \in 1..Len(items) |-> [key |-> <<items[i].valor>>, val |-> items[i]]], FALSE)

\* a slip: the total read from the description preferred to the recorded one
total_do_bucket_inferred(l) ==
    IF extract_num_total(l.descricao)[2] > 0 THEN extract_num_total(l.descricao)[2]
    ELSE IF l.parcela_total > 0 THEN l.parcela_total
    ELSE NoneInt

\* the installment total of the bucket key: the recorded one, else the one
\* read from the description
total_do_bucket(l) ==
    IF l.parcela_total > 0 THEN l.parcela_total
    ELSE IF extract_num_total(l.descricao)[2] > 0 THEN extract_num_total(l.descricao)[2]
    ELSE NoneInt

\* the key of bucket_key for l
bucket_of(l, uni) == <<l.cartao_id, try_normalizar(l.descricao, uni), total_do_bucket(l)>>

RECURSIVE bucket_keys(_, _, _)
\* the keys of bucket_key, in the order of their insertion
bucket_keys(cands, uni, keys) ==
    IF cands = << >> THEN keys
    ELSE bucket_keys(Tail(cands), uni,
                     IF \E i \in 1..Len(keys) : keys[i] = bucket_of(Head(cands), uni)
                     THEN keys ELSE Append(keys, bucket_of(Head(cands), uni)))

\* bucket_key[key]
items_bucket(cands, uni, key) == SelectSeq(cands, LAMBDA l : bucket_of(l, uni) = key)

\* the groups of every bucket, in the order they are appended to grupos
grupos_dos_buckets(cands, uni, keys) ==
    Flatten([b \in 1..Len(keys) |->
                sub_buckets(keys[b], sorted_by_valor(items_bucket(cands, uni, keys[b])),
                            << >>, 0, << >>)])

\* the descriptions a bucket can have, in the order of str.__lt__
DescBaseOrder == << << >>, <<"LOJA">>, <<"LOJA", "01", "03">>, <<"LOJA", "02", "03">>, <<"MERCADO">> >>

DescBaseRank(desc_base) == CHOOSE i \in 1..Len(DescBaseOrder) : DescBaseOrder[i] = desc_base

\* a slip: the description left out of the sort key
sort_grupos_by_date(grupos) ==
    SortKeyed(<< >>, [i \in 1..Len(grupos) |->
                        [key |-> <<grupos[i].data_compra>>, val |-> grupos[i]]], TRUE)

\* grupos.sort(key=lambda g: (g.data_compra, g.desc_base), reverse=True)
sort_grupos(grupos) ==
    SortKeyed(<< >>, [i \in 1..Len(grupos) |->
                        [key |-> <<grupos[i].data_compra, DescBaseRank(grupos[i].desc_base)>>,
                         val |-> grupos[i]]], TRUE)

\* agrupar_parcelados(qs) for the rows itens of the queryset
agrupar_parcelados(itens, uni) ==
    sort_grupos(grupos_dos_buckets(SelectSeq(itens, eh_candidato), uni,
                                   bucket_keys(SelectSeq(itens, eh_candidato), uni, << >>)))

MaxItens == 3

\* the rows a queryset can hold, but for their id
LancamentoRows ==
    [data : {0, 20, 39, 58}, valor : {1000, 1050, 1051}, descricao : {<<"LOJA", "PARC", "01/03">>},
     etiqueta_parcela : {None}, parcela_total : {NoneInt}, cartao_id : {1}]
    \cup [data : {20, 58}, valor : {1000}, descricao : {<<"LOJA">>},
          etiqueta_parcela : {"PARC 01/03"}, parcela_total : {3}, cartao_id : {1}]
    \cup [data : {20}, valor : {1000}, descricao : {<<"LOJA">>, <<"LOJA", "PARC", "02/03">>, <<"MERCADO", "2X">>},
          etiqueta_parcela : {None}, parcela_total : {NoneInt}, cartao_id : {1}]
    \cup [data : {20}, valor : {1000}, descricao : {<<"LOJA", "PARC", "01/03">>},
          etiqueta_parcela : {None}, parcela_total : {NoneInt}, cartao_id : {2}]
    \cup [data : {20, 58}, valor : {1000}, descricao : {<<"LOJA", "PARC", "01/03">>},
          etiqueta_parcela : {None}, parcela_total : {5}, cartao_id : {1}]

\* the row of primary key id
Lancamento(id, row) ==
    [id |-> id, data |-> row.data, valor |-> row.valor, descricao |-> row.descricao,
     etiqueta_parcela |-> row.etiqueta_parcela, parcela_total |-> row.parcela_total,
     cartao_id |-> row.cartao_id]

QuerySets ==
    {[i \in 1..Len(rows) |-> Lancamento(i, rows[i])] :
        rows \in UNION {[1..n -> LancamentoRows] : n \in 0..MaxItens}}

MaxSortItens == 4

\* the rows of the querysets that hold two purchases
SortRows ==
    [data : {0, 20, 58}, valor : {1000}, descricao : {<<"LOJA", "PARC", "01/03">>, <<"MERCADO", "2X">>},
     etiqueta_parcela : {None}, parcela_total : {NoneInt}, cartao_id : {1}]

SortQuerySets ==
    {[i \in 1..Len(rows) |-> Lancamento(i, rows[i])] :
        rows \in [1..MaxSortItens -> SortRows]}

IdleGroup ==
    /\ g_itens = << >>
    /\ g_uni = TRUE
    /\ g_out = << >>
    /\ g_pc = "off"

InitGroup ==
    /\ g_itens \in QuerySets \cup SortQuerySets
    /\ g_uni \in BOOLEAN
    /\ g_out = << >>
    /\ g_pc = "ready"

GroupCall ==
    /\ g_pc = "ready"
    /\ g_out' = agrupar_parcelados(g_itens, g_uni)
    /\ g_pc' = "done"
    /\ UNCHANGED <<g_itens, g_uni>>
    /\ UNCHANGED not_group

-----------------------------------------------------------------------------
(* importar_pdf_cartao_bb.  A run sets its options, then handles the PDFs  *)
(* of its path one by one, then prints its counters.  The store is the     *)
(* four tables the command writes; descriptions are shorter than the 255   *)
(* characters the command cuts them to.                                    *)

RECURSIVE scan_lines(_, _, _, _, _, _, _, _)
\* the loop of parse_lancamentos from line pos on, the last flush_block(),
\* the sort and the return
scan_lines(all, pos, block, secao, cont, lins, fechado_em, uni) ==
    IF pos > Len(all)
    THEN (IF flush_block(block, secao, cont, lins, fechado_em, uni).raise # None
          THEN [raise |-> flush_block(block, secao, cont, lins, fechado_em, uni).raise, linhas |-> << >>]
          ELSE [raise |-> None,
                linhas |-> sort_by_data(flush_block(block, secao, cont, lins, fechado_em, uni).linhas)])
    ELSE IF all[pos] = << >>
    THEN scan_lines(all, pos + 1, block, secao, cont, lins, fechado_em, uni)
    ELSE IF ~RE_DATA_CURTA(all[pos]) /\ RE_SECAO(all[pos])
    THEN scan_lines(all, pos + 1, block, normalizar_secao(all[pos], uni), cont, lins, fechado_em, uni)
    ELSE IF ~RE_DATA_CURTA(all[pos])
    THEN scan_lines(all, pos + 1,
                    IF block # << >> THEN Append(block, <<pos, all[pos]>>) ELSE block,
                    secao, cont, lins, fechado_em, uni)
    ELSE IF flush_block(block, secao, cont, lins, fechado_em, uni).raise # None
    THEN [raise |-> flush_block(block, secao, cont, lins, fechado_em, uni).raise, linhas |-> << >>]
    ELSE scan_lines(all, pos + 1, << <<pos, all[pos]>> >>, secao,
                    flush_block(block, secao, cont, lins, fechado_em, uni).contagem,
                    flush_block(block, secao, cont, lins, fechado_em, uni).linhas,
                    fechado_em, uni)

\* parse_lancamentos(texto, dados_fatura) as one call
parse_lancamentos(txt, fechado_em, uni) ==
    IF txt = << >> \/ StripLen(txt) < MinTexto THEN [raise |-> None, linhas |-> << >>]
    ELSE scan_lines(linhas_apos_ancora(txt), 1, << >>, None, EmptyMap, << >>, fechado_em, uni)

\* the PDFs a path can hold and the text extrair_texto reads from each
Pdfs == {"a.pdf", "a2.pdf", "a3.pdf", "d.pdf", "e.pdf", "s.pdf", "x.pdf"}

Cabecalho ==
    << <<"Fatura", "fechada", "em", "10/01/2025", "Final", "1234">>,
       <<"Vencimento", "20/01/2025">>,
       <<"LANÇAMENTOS", "NESTA", "FATURA">> >>

extrair_texto ==
    ("a.pdf" :> Cabecalho \o << <<"15/03", "MARKET", "R$", "45,67">>,
                                <<"20/03", "STORE", "PARC", "02/05", "R$", "120,00">> >>) @@
    ("a2.pdf" :> Cabecalho \o << <<"15/03", "market", "R$", "45,67">> >>) @@
    ("a3.pdf" :> Cabecalho \o << <<"31/12", "OPENAI", "CA", "R$", "113,93">> >>) @@
    ("d.pdf" :> Cabecalho \o << <<"15/03", "MARKET", "R$", "45,67">>,
                                <<"15/03", "MARKET", "R$", "45,67">> >>) @@
    ("e.pdf" :> << <<"fechada", "em", "31/02/2025", "Final", "1234">>,
                   <<"Vencimento", "20/01/2025">> >>) @@
    ("s.pdf" :> << <<"Final", "1234">> >>) @@
    ("x.pdf" :> Cabecalho \o << <<"29/02", "TAXI", "R$", "9,00">> >>)

\* dados = parse_dados_fatura(texto, str(pdf)), for every PDF
DadosDe == [pdf \in Pdfs |-> parse_dados_fatura(extrair_texto[pdf])]

\* linhas = parse_lancamentos(texto, dados), in an environment with unidecode
LinhasDe ==
    [pdf \in Pdfs |->
        IF IsRaise(DadosDe[pdf]) THEN [raise |-> None, linhas |-> << >>]
        ELSE parse_lancamentos(extrair_texto[pdf], DadosDe[pdf].fechado_em, TRUE)]

IntegrityError == [raise |-> "IntegrityError", lancs |-> {}]

\* the key of Cartao.objects.get_or_create: (instituicao, bandeira, cartao_final)
cartao_de(dados) ==
    <<"Banco do Brasil", IF dados.bandeira = None THEN "" ELSE dados.bandeira, dados.cartao_final>>

\* the key of FaturaCartao.objects.get_or_create: (cartao, competencia)
fatura_de(dados) == <<cartao_de(dados), dados.competencia>>

\* the columns of FaturaCartao the command writes
FaturaCartao(dados, pdf) ==
    [fechado_em    |-> dados.fechado_em,
     vencimento_em |-> dados.vencimento_em,
     total         |-> dados.total,
     arquivo_hash  |-> dados.arquivo_hash,
     fonte_arquivo |-> pdf]

or_vazio(x) == IF x = None THEN "" ELSE x

\* the row Lancamento.objects.create writes for the line l
LancamentoRow(fatura, l) ==
    [fatura        |-> fatura,
     data          |-> l.data,
     descricao     |-> l.descricao,
     cidade        |-> or_vazio(l.cidade),
     pais          |-> or_vazio(l.pais),
     secao         |-> l.secao,
     valor         |-> l.valor,
     parcela_num   |-> l.parcela_num,
     parcela_total |-> l.parcela_total,
     hash_linha    |-> l.hash_linha,
     hash_ordem    |-> l.hash_ordem,
     is_duplicado  |-> l.is_duplicado]

\* Lancamento.objects.filter(fatura, data, descricao, valor).exists()
existe(lancs, fatura, l) ==
    \E r \in lancs :
        r.fatura = fatura /\ r.data = l.data /\ r.descricao = l.descricao /\ r.valor = l.valor

\* the constraint uniq_lcto_por_fatura_hash_ordem refuses the row
viola_unicidade(lancs, fatura, l) ==
    \E r \in lancs :
        r.fatura = fatura /\ r.hash_linha = l.hash_linha /\ r.hash_ordem = l.hash_ordem

RECURSIVE criar_lancamentos(_, _, _)
\* the loop over linhas: the rows of the table behind it, or the
\* IntegrityError of a create
criar_lancamentos(lancs, fatura, lins) ==
    IF lins = << >> THEN [raise |-> None, lancs |-> lancs]
    ELSE IF existe(lancs, fatura, Head(lins)) THEN criar_lancamentos(lancs, fatura, Tail(lins))
    ELSE IF viola_unicidade(lancs, fatura, Head(lins)) THEN IntegrityError
    ELSE criar_lancamentos(lancs \cup {LancamentoRow(fatura, Head(lins))}, fatura, Tail(lins))

Resultado(out, inst, cartoes, faturas, lancs) ==
    [out |-> out, inst |-> inst, cartoes |-> cartoes, faturas |-> faturas, lancs |-> lancs]

\* the end of the atomic block: committed, or rolled back to faturas0, lancs0
gravar_linhas(criadas, inst, cartoes, faturas0, lancs0, faturas1) ==
    IF criadas.raise # None THEN Resultado("erro", inst, cartoes, faturas0, lancs0)
    ELSE Resultado("ok", inst, cartoes, faturas1, criadas.lancs)

\* a slip: a statement already imported is imported again
ja_importada_never(fatura, dados, force_replace) == FALSE

\* the test of the branch that ignores a statement already imported
ja_importada(fatura, dados, force_replace) ==
    /\ fatura.arquivo_hash # << >>
    /\ fatura.arquivo_hash = dados.arquivo_hash
    /\ ~force_replace

sem_fatura(faturas, fatura) == [k \in DOMAIN faturas \ {fatura} |-> faturas[k]]

\* the atomic block
gravar(pdf, dados, lins, opts, inst, cartoes, faturas, lancs) ==
    IF fatura_de(dados) \notin DOMAIN faturas
    THEN gravar_linhas(criar_lancamentos(lancs, fatura_de(dados), lins),
                       inst, cartoes, faturas, lancs,
                       (fatura_de(dados) :> FaturaCartao(dados, pdf)) @@ faturas)
    ELSE IF ~opts.force /\ ja_importada(faturas[fatura_de(dados)], dados, opts.replace)
    THEN Resultado("ignorado", inst, cartoes, faturas, lancs)
    ELSE gravar_linhas(criar_lancamentos(IF ~opts.force /\ opts.replace
                                         THEN {r \in lancs : r.fatura # fatura_de(dados)}
                                         ELSE lancs,
                                         fatura_de(dados), lins),
                       inst, cartoes, faturas, lancs,
                       IF opts.force THEN faturas
                       ELSE (fatura_de(dados) :> FaturaCartao(dados, pdf)) @@ sem_fatura(faturas, fatura_de(dados)))

\* behind the two parses: the dry run, --force, then the atomic block
apos_parse(pdf, dados, parsed, opts, inst, cartoes, faturas, lancs) ==
    IF parsed.raise # None THEN Resultado("erro", inst, cartoes, faturas, lancs)
    ELSE IF opts.dry THEN Resultado("ok", inst, cartoes, faturas, lancs)
    ELSE IF opts.force
    THEN gravar(pdf, dados, parsed.linhas, opts, inst, cartoes,
                sem_fatura(faturas, fatura_de(dados)),
                {r \in lancs : r.fatura # fatura_de(dados)})
    ELSE gravar(pdf, dados, parsed.linhas, opts, inst, cartoes, faturas, lancs)

\* a slip: the institution resolved before the header is parsed
importar_pdf_inst_first(pdf, opts, inst, cartoes, faturas, lancs) ==
    IF extrair_texto[pdf] = << >> \/ StripLen(extrair_texto[pdf]) < MinTexto
    THEN Resultado("pouco texto", inst, cartoes, faturas, lancs)
    ELSE IF IsRaise(DadosDe[pdf])
    THEN Resultado("erro", inst \cup {"Banco do Brasil"}, cartoes, faturas, lancs)
    ELSE apos_parse(pdf, DadosDe[pdf], LinhasDe[pdf], opts,
                    inst \cup {"Banco do Brasil"}, cartoes \cup {cartao_de(DadosDe[pdf])},
                    faturas, lancs)

\* the body of the loop over pdfs
importar_pdf(pdf, opts, inst, cartoes, faturas, lancs) ==
    IF extrair_texto[pdf] = << >> \/ StripLen(extrair_texto[pdf]) < MinTexto
    THEN Resultado("pouco texto", inst, cartoes, faturas, lancs)
    ELSE IF IsRaise(DadosDe[pdf]) THEN Resultado("erro", inst, cartoes, faturas, lancs)
    ELSE apos_parse(pdf, DadosDe[pdf], LinhasDe[pdf], opts,
                    inst \cup {"Banco do Brasil"}, cartoes \cup {cartao_de(DadosDe[pdf])},
                    faturas, lancs)

MaxRuns == 2
MaxPdfs == 2

Options == [dry : BOOLEAN, replace : BOOLEAN, force : BOOLEAN, force_all : BOOLEAN]

NoOptions == [dry |-> FALSE, replace |-> FALSE, force |-> FALSE, force_all |-> FALSE]

NoLast == [pdf |-> None, out |-> None]

IdleImport ==
    /\ i_opts = NoOptions
    /\ i_pc = "off"
    /\ i_run = 0
    /\ i_n = 0
    /\ i_ok = 0
    /\ i_erros = 0
    /\ i_ignorados = 0
    /\ i_inst = {}
    /\ i_cartoes = {}
    /\ i_faturas = << >>
    /\ i_lancs = {}
    /\ i_last = NoLast

InitImport ==
    /\ i_opts = NoOptions
    /\ i_pc = "idle"
    /\ i_run = 0
    /\ i_n = 0
    /\ i_ok = 0
    /\ i_erros = 0
    /\ i_ignorados = 0
    /\ i_inst = {}
    /\ i_cartoes = {}
    /\ i_faturas = << >>
    /\ i_lancs = {}
    /\ i_last = NoLast

\* handle() up to the loop, over a path that holds a PDF: the options, the
\* deletes of --force-all, the counters
ImportStart(opts) ==
    /\ i_pc = "idle"
    /\ i_run < MaxRuns
    /\ i_run' = i_run + 1
    /\ i_opts' = opts
    /\ i_pc' = "loop"
    /\ i_n' = 0
    /\ i_ok' = 0
    /\ i_erros' = 0
    /\ i_ignorados' = 0
    /\ i_lancs' = IF opts.force_all THEN {} ELSE i_lancs
    /\ i_faturas' = IF opts.force_all THEN << >> ELSE i_faturas
    /\ i_cartoes' = IF opts.force_all THEN {} ELSE i_cartoes
    /\ i_last' = NoLast
    /\ UNCHANGED i_inst
    /\ UNCHANGED not_import

\* the store and the counters behind the statement whose outcome is res
ImportOutcome(pdf, res) ==
    /\ i_inst' = res.inst
    /\ i_cartoes' = res.cartoes
    /\ i_faturas' = res.faturas
    /\ i_lancs' = res.lancs
    /\ i_ok' = IF res.out = "ok" THEN i_ok + 1 ELSE i_ok
    /\ i_erros' = IF res.out = "erro" THEN i_erros + 1 ELSE i_erros
    /\ i_ignorados' = IF res.out = "ignorado" THEN i_ignorados + 1 ELSE i_ignorados
    /\ i_last' = [pdf |-> pdf, out |-> res.out]

\* one turn of the loop over pdfs
ImportPdf(pdf) ==
    /\ i_pc = "loop"
    /\ i_n < MaxPdfs
    /\ i_n' = i_n + 1
    /\ ImportOutcome(pdf, importar_pdf(pdf, i_opts, i_inst, i_cartoes, i_faturas, i_lancs))
    /\ UNCHANGED <<i_opts, i_pc, i_run>>
    /\ UNCHANGED not_import

\* the end of the loop and the summary
ImportEnd ==
    /\ i_pc = "loop"
    /\ i_n >= 1
    /\ i_pc' = "idle"
    /\ UNCHANGED <<i_opts, i_run, i_n, i_ok, i_erros, i_ignorados,
                   i_inst, i_cartoes, i_faturas, i_lancs, i_last>>
    /\ UNCHANGED not_import

-----------------------------------------------------------------------------
(* Two calls of parse_lancamentos on two statements, in two threads.  Each *)
(* call is past line 174: the text was long enough, all_lines holds the    *)
(* lines behind the anchor and the locals are set.  A step is one turn of  *)
(* the loop of one of the calls, or its last flush, sort and return.       *)

Calls == {1, 2}

MaxTwoLines == 2

TwoLines ==
    { <<"15/03", "MARKET", "R$", "45,67">>,
      <<"05/03", "LOJA">>,
      <<"PGTO", "CONTA", "DEBITO", "R$", "-50,00">>,
      <<"COMPRAS", "NACIONAIS">>,
      <<"29/02", "TAXI", "R$", "9,00">> }

TwoTextos == UNION {[1..k -> TwoLines] : k \in 0..MaxTwoLines}

\* dados_fatura.fechado_em of both statements
TwoFech == Date(2025, 1, 10)

\* a slip: contagem kept at module level, one counter for every call
contagem_global(c) == 1

\* the frame that holds the contagem of call c: its own (line 171)
contagem_frame(c) == c

IdleTwo ==
    /\ t_lines = [c \in Calls |-> << >>]
    /\ t_pos = [c \in Calls |-> 0]
    /\ t_block = [c \in Calls |-> << >>]
    /\ t_secao = [c \in Calls |-> None]
    /\ t_cont = [c \in Calls |-> EmptyMap]
    /\ t_linhas = [c \in Calls |-> << >>]
    /\ t_pc = [c \in Calls |-> "off"]
    /\ t_ret = [c \in Calls |-> [raise |-> None, linhas |-> << >>]]

InitTwo ==
    /\ t_lines \in [Calls -> TwoTextos]
    /\ t_pos = [c \in Calls |-> 1]
    /\ t_block = [c \in Calls |-> << >>]
    /\ t_secao = [c \in Calls |-> None]
    /\ t_cont = [c \in Calls |-> EmptyMap]
    /\ t_linhas = [c \in Calls |-> << >>]
    /\ t_pc = [c \in Calls |-> "scan"]
    /\ t_ret = [c \in Calls |-> [raise |-> None, linhas |-> << >>]]

\* flush_block() of call c
TwoFlush(c) ==
    flush_block(t_block[c], t_secao[c], t_cont[contagem_frame(c)], t_linhas[c], TwoFech, TRUE)

\* a date line of call c: its open block is resolved, the line opens the next
TwoDateLine(c, f, t) ==
    IF f.raise # None
    THEN /\ t_pc' = [t_pc EXCEPT ![c] = "raised"]
         /\ t_ret' = [t_ret EXCEPT ![c] = [raise |-> f.raise, linhas |-> << >>]]
         /\ t_block' = [t_block EXCEPT ![c] = << >>]
         /\ UNCHANGED <<t_secao, t_cont, t_linhas>>
    ELSE /\ t_cont' = [t_cont EXCEPT ![contagem_frame(c)] = f.contagem]
         /\ t_linhas' = [t_linhas EXCEPT ![c] = f.linhas]
         /\ t_block' = [t_block EXCEPT ![c] = << <<t_pos[c], t>> >>]
         /\ UNCHANGED <<t_pc, t_secao, t_ret>>

\* the body of the loop of call c for the line t
TwoLineOf(c, t) ==
    IF t = << >>
    THEN UNCHANGED <<t_pc, t_block, t_secao, t_cont, t_linhas, t_ret>>
    ELSE IF ~RE_DATA_CURTA(t) /\ RE_SECAO(t)
    THEN /\ t_secao' = [t_secao EXCEPT ![c] = normalizar_secao(t, TRUE)]
         /\ UNCHANGED <<t_pc, t_block, t_cont, t_linhas, t_ret>>
    ELSE IF RE_DATA_CURTA(t)
    THEN TwoDateLine(c, TwoFlush(c), t)
    ELSE /\ t_block' = [t_block EXCEPT ![c] = IF t_block[c] # << >>
                                                THEN Append(t_block[c], <<t_pos[c], t>>)
                                                ELSE t_block[c]]
         /\ UNCHANGED <<t_pc, t_secao, t_cont, t_linhas, t_ret>>

\* one turn of the loop of call c
TwoLine(c) ==
    /\ t_pc[c] = "scan"
    /\ t_pos[c] <= Len(t_lines[c])
    /\ TwoLineOf(c, t_lines[c][t_pos[c]])
    /\ t_pos' = [t_pos EXCEPT ![c] = t_pos[c] + 1]
    /\ UNCHANGED t_lines
    /\ UNCHANGED not_two

\* the last flush_block() of call c, then the sort and the return
TwoReturn(c, f) ==
    IF f.raise # None
    THEN /\ t_pc' = [t_pc EXCEPT ![c] = "raised"]
         /\ t_ret' = [t_ret EXCEPT ![c] = [raise |-> f.raise, linhas |-> << >>]]
         /\ UNCHANGED <<t_cont, t_linhas>>
    ELSE /\ t_pc' = [t_pc EXCEPT ![c] = "done"]
         /\ t_cont' = [t_cont EXCEPT ![contagem_frame(c)] = f.contagem]
         /\ t_linhas' = [t_linhas EXCEPT ![c] = sort_by_data(f.linhas)]
         /\ t_ret' = [t_ret EXCEPT ![c] = [raise |-> None, linhas |-> sort_by_data(f.linhas)]]

\* the end of the stream of call c
TwoFinish(c) ==
    /\ t_pc[c] = "scan"
    /\ t_pos[c] > Len(t_lines[c])
    /\ TwoReturn(c, TwoFlush(c))
    /\ t_block' = [t_block EXCEPT ![c] = << >>]
    /\ UNCHANGED <<t_lines, t_pos, t_secao>>
    /\ UNCHANGED not_two

-----------------------------------------------------------------------------
(* parse_lancamentos as one call, with its keyword arguments *)

\* the defaults of the keyword arguments of parse_lancamentos
DebugDefault == [debug_unmatched |-> FALSE, debug_max |-> 40]

\* the keyword arguments a caller passes
DebugOptions ==
    {DebugDefault, [debug_unmatched |-> TRUE, debug_max |-> 40], [debug_unmatched |-> TRUE, debug_max |-> 0]}

\* dados_fatura.fechado_em of the call
KwFech == Date(2025, 1, 10)

\* parse_lancamentos(texto, dados_fatura, debug_unmatched=..., debug_max=...):
\* no line of the function reads the two keyword arguments
parse_lancamentos_kw(txt, fechado_em, uni, debug_unmatched, debug_max) ==
    parse_lancamentos(txt, fechado_em, uni)

IdleKw ==
    /\ k_texto = << >>
    /\ k_debug = DebugDefault
    /\ k_out = [raise |-> None, linhas |-> << >>]
    /\ k_pc = "off"

InitKw ==
    /\ k_texto \in Textos
    /\ k_debug \in DebugOptions
    /\ k_out = [raise |-> None, linhas |-> << >>]
    /\ k_pc = "ready"

KwCall ==
    /\ k_pc = "ready"
    /\ k_out' = parse_lancamentos_kw(k_texto, KwFech, TRUE, k_debug.debug_unmatched, k_debug.debug_max)
    /\ k_pc' = "done"
    /\ UNCHANGED <<k_texto, k_debug>>
    /\ UNCHANGED not_kw

-----------------------------------------------------------------------------
(* agrupar_parcelados on one collection of rows supplied in any order,     *)
(* core.utils.normaliza being importable                                   *)

MaxOrderItens == 4

\* the rows of the collections whose order of supply varies
OrderRows ==
    [data : {0, 20}, valor : {1000}, descricao : {<<"LOJA", "PARC", "01/03">>, <<"MERCADO", "2X">>},
     etiqueta_parcela : {None}, parcela_total : {NoneInt}, cartao_id : {1}]
    \cup [data : {0}, valor : {1050}, descricao : {<<"LOJA", "PARC", "01/03">>},
          etiqueta_parcela : {None}, parcela_total : {NoneInt}, cartao_id : {1}]

OrderQuerySets ==
    {[i \in 1..Len(rows) |-> Lancamento(i, rows[i])] :
        rows \in [1..MaxOrderItens -> OrderRows]}

IdleOrder ==
    /\ o_rows = << >>
    /\ o_itens = << >>
    /\ o_out = << >>
    /\ o_pc = "off"

InitOrder ==
    /\ o_rows \in OrderQuerySets
    /\ o_itens = << >>
    /\ o_out = << >>
    /\ o_pc = "stored"

\* the queryset hands the rows over in the order perm
OrderSupply(perm) ==
    /\ o_pc = "stored"
    /\ o_itens' = [i \in 1..Len(o_rows) |-> o_rows[perm[i]]]
    /\ o_pc' = "ready"
    /\ UNCHANGED <<o_rows, o_out>>
    /\ UNCHANGED not_order

OrderCall ==
    /\ o_pc = "ready"
    /\ o_out' = agrupar_parcelados(o_itens, TRUE)
    /\ o_pc' = "done"
    /\ UNCHANGED <<o_rows, o_itens>>
    /\ UNCHANGED not_order

-----------------------------------------------------------------------------
(* views.parcelados.parcelados_acao.  The view reads and writes the        *)
(* columns oculta, oculta_manual and categoria of Lancamento; models.py    *)
(* declares none of them, so the model runs the view against both a table  *)
(* that has them and the table of models.py, where the filter raises       *)
(* FieldError.  POST values are strings; dates are day numbers.            *)

\* the dates the posted strings stand for: date(int(y), int(m), int(d))
IsoDates == ("2024-01-01" :> 0) @@ ("2024-01-21" :> 20) @@ ("2024-02-28" :> 58)

\* _parse_date(s): None for an empty string and for a string that is no date
parse_date(s) == IF s \in DOMAIN IsoDates THEN IsoDates[s] ELSE NoneInt

\* the strings int() converts
IntStrings == {"1", "2", "9"}

\* the ids of the rows of Categoria and of Membro
Categorias == {"1", "2"}
Membros == {"1", "2"}

\* a row of Lancamento, with the columns the view and the grouping read
ViewRow(id, data, descricao, oculta_manual) ==
    [id |-> id, data |-> data, valor |-> 1000, descricao |-> descricao,
     etiqueta_parcela |-> None, parcela_total |-> NoneInt, cartao_id |-> 1,
     oculta |-> FALSE, oculta_manual |-> oculta_manual,
     categoria |-> None, membros |-> {}]

\* the table before the first request
ViewRows ==
    << ViewRow(1, 0, <<"LOJA", "PARC", "01/03">>, FALSE),
       ViewRow(2, 20, <<"LOJA", "PARC", "01/03">>, FALSE),
       ViewRow(3, 58, <<"LOJA", "PARC", "01/03">>, FALSE),
       ViewRow(4, 20, <<"MERCADO", "2X">>, FALSE),
       ViewRow(5, 58, <<"MERCADO", "2X">>, FALSE),
       ViewRow(6, 58, <<"MERCADO", "2X">>, TRUE) >>

\* descricao__icontains=busca, busca being one word
icontains(descricao, busca) == \E i \in 1..Len(descricao) : upper(descricao[i]) = upper(busca)

\* the queryset of lines 96-101
view_qs(lancs, d_ini, d_fim, busca) ==
    SelectSeq(lancs, LAMBDA l : /\ d_ini <= l.data /\ l.data <= d_fim
                                /\ ~l.oculta /\ ~l.oculta_manual
                                /\ busca = "" \/ icontains(l.descricao, busca))

\* what the view answers and the table it leaves; an exception leaves the
\* view and the atomic block rolls back
Resposta(out, lancs) == [out |-> out, lancs |-> lancs]

\* next((g for g in grupos if g.group_id == group_id), None): its index, or 0
alvo(grupos, group_id) ==
    IF \A k \in 1..Len(grupos) : grupos[k].group_id # group_id THEN 0
    ELSE CHOOSE k \in 1..Len(grupos) :
             /\ grupos[k].group_id = group_id
             /\ \A j \in 1..(k - 1) : grupos[j].group_id # group_id

\* a slip: every row of the table is taken
lcts_all(lancs, lanc_ids) == {lancs[i].id : i \in 1..Len(lancs)}

\* Lancamento.objects.filter(id__in=lanc_ids): the ids of the rows taken
lcts(lancs, lanc_ids) ==
    {lancs[i].id : i \in {j \in 1..Len(lancs) :
                             \E m \in 1..Len(lanc_ids) : lanc_ids[m] = lancs[j].id}}

\* for l in lcts: l.membros.set(membros)
set_membros(lancs, ids, membros) ==
    [i \in 1..Len(lancs) |->
        IF lancs[i].id \in ids THEN [lancs[i] EXCEPT !.membros = membros] ELSE lancs[i]]

\* for l in lcts: l.categoria = cat; l.save(update_fields=["categoria"])
set_categoria(lancs, ids, cat) ==
    [i \in 1..Len(lancs) |->
        IF lancs[i].id \in ids THEN [lancs[i] EXCEPT !.categoria = cat] ELSE lancs[i]]

\* lines 111-135: the two actions and the redirect
acao(req, lancs, ids) ==
    IF req.action = "set_membros"
    THEN Resposta("redirect",
                  set_membros(lancs, ids,
                              {req.membros_ids[m] : m \in 1..Len(req.membros_ids)} \cap Membros))
    ELSE IF req.action = "set_categoria"
    THEN (IF req.categoria_id \in {None, ""} THEN Resposta("Categoria não informada.", lancs)
          ELSE IF req.categoria_id \notin IntStrings THEN Resposta("ValueError", lancs)
          ELSE IF req.categoria_id \notin Categorias THEN Resposta("Categoria inválida.", lancs)
          ELSE Resposta("redirect", set_categoria(lancs, ids, req.categoria_id)))
    ELSE Resposta("Ação não suportada.", lancs)

\* lines 103-109: the groups of the queryset and the group posted
acao_no_grupo(req, lancs, grupos, k) ==
    IF k = 0 THEN Resposta("Grupo não encontrado para o filtro atual.", lancs)
    ELSE acao(req, lancs, lcts(lancs, grupos[k].lancamento_ids))

\* parcelados_acao(request) on the table lancs
parcelados_acao(req, schema, lancs) ==
    IF parse_date(req.data_ini) = NoneInt \/ parse_date(req.data_fim) = NoneInt
    THEN Resposta("Período inválido.", lancs)
    ELSE IF ~schema THEN Resposta("FieldError", lancs)
    ELSE acao_no_grupo(req, lancs,
                       agrupar_parcelados(view_qs(lancs, parse_date(req.data_ini),
                                                  parse_date(req.data_fim), req.busca), TRUE),
                       alvo(agrupar_parcelados(view_qs(lancs, parse_date(req.data_ini),
                                                        parse_date(req.data_fim), req.busca), TRUE),
                            req.group_id))

MaxRequests == 2

\* a group_id that no group has
NoGroupId == <<0, 0, << >>, 0, 0>>

\* the group ids a page of parcelados_list has shown, and one it has not
GroupIds ==
    {NoGroupId} \cup {agrupar_parcelados(view_qs(ViewRows, 0, 58, ""), TRUE)[k].group_id :
                         k \in 1..Len(agrupar_parcelados(view_qs(ViewRows, 0, 58, ""), TRUE))}

\* the fields every request posts
Filtros ==
    [group_id : GroupIds,
     data_ini : {"2024-01-01", "2024-02-30"},
     data_fim : {"2024-01-21", "2024-02-28"},
     busca : {"", "MERCADO"}]

\* the request of action action with the filter fields f
Request(action, f, categoria_id, membros_ids) ==
    [action |-> action, group_id |-> f.group_id, data_ini |-> f.data_ini,
     data_fim |-> f.data_fim, busca |-> f.busca,
     categoria_id |-> categoria_id, membros_ids |-> membros_ids]

\* the requests a client posts: each form posts the field of its action
Requests ==
    {Request("set_membros", f, None, m) : f \in Filtros, m \in {<< >>, <<"1">>, <<"2", "9">>}}
        \cup {Request("set_categoria", f, c, << >>) : f \in Filtros, c \in {None, "1", "9", "x"}}
        \cup {Request("delete", f, None, << >>) : f \in Filtros}

NoRequest == [req |-> None, out |-> None]

IdleView ==
    /\ a_schema = TRUE
    /\ a_lancs = << >>
    /\ a_n = 0
    /\ a_last = NoRequest

InitView ==
    /\ a_schema \in BOOLEAN
    /\ a_lancs = ViewRows
    /\ a_n = 0
    /\ a_last = NoRequest

\* one POST to parcelados/acao/
ViewRequest(req) ==
    /\ a_n < MaxRequests
    /\ a_n' = a_n + 1
    /\ a_lancs' = parcelados_acao(req, a_schema, a_lancs).lancs
    /\ a_last' = [req |-> req, out |-> parcelados_acao(req, a_schema, a_lancs).out]
    /\ UNCHANGED a_schema
    /\ UNCHANGED not_view

-----------------------------------------------------------------------------
(* the specifications *)

vars == <<vars_rollover, vars_parse, vars_header, vars_group, vars_import, vars_two, vars_kw, vars_order, vars_view>>

NextRollover == RolloverCall

StartRollover == InitRollover /\ IdleParse /\ IdleHeader /\ IdleGroup /\ IdleImport /\ IdleTwo /\ IdleKw /\ IdleOrder /\ IdleView

SpecRollover == StartRollover /\ [][NextRollover]_vars

NextParse == ParseStart \/ ParseLine \/ ParseFinish \/ ParseAgain

StartParse == InitParse /\ IdleRollover /\ IdleHeader /\ IdleGroup /\ IdleImport /\ IdleTwo /\ IdleKw /\ IdleOrder /\ IdleView

SpecParse == StartParse /\ [][NextParse]_vars

NextHeader == HeaderCall

StartHeader == InitHeader /\ IdleRollover /\ IdleParse /\ IdleGroup /\ IdleImport /\ IdleTwo /\ IdleKw /\ IdleOrder /\ IdleView

SpecHeader == StartHeader /\ [][NextHeader]_vars

NextGroup == GroupCall

StartGroup == InitGroup /\ IdleRollover /\ IdleParse /\ IdleHeader /\ IdleImport /\ IdleTwo /\ IdleKw /\ IdleOrder /\ IdleView

SpecGroup == StartGroup /\ [][NextGroup]_vars

NextImport ==
    \/ \E opts \in Options : ImportStart(opts)
    \/ \E pdf \in Pdfs : ImportPdf(pdf)
    \/ ImportEnd

StartImport == InitImport /\ IdleRollover /\ IdleParse /\ IdleHeader /\ IdleGroup /\ IdleTwo /\ IdleKw /\ IdleOrder /\ IdleView

SpecImport == StartImport /\ [][NextImport]_vars

NextTwo ==
    \/ \E c \in Calls : TwoLine(c)
    \/ \E c \in Calls : TwoFinish(c)

StartTwo == InitTwo /\ IdleRollover /\ IdleParse /\ IdleHeader /\ IdleGroup /\ IdleImport /\ IdleKw /\ IdleOrder /\ IdleView

SpecTwo == StartTwo /\ [][NextTwo]_vars

NextKw == KwCall

StartKw == InitKw /\ IdleRollover /\ IdleParse /\ IdleHeader /\ IdleGroup /\ IdleImport /\ IdleTwo /\ IdleOrder /\ IdleView

SpecKw == StartKw /\ [][NextKw]_vars

NextOrder ==
    \/ \E perm \in Permutations(1..MaxOrderItens) : OrderSupply(perm)
    \/ OrderCall

StartOrder == InitOrder /\ IdleRollover /\ IdleParse /\ IdleHeader /\ IdleGroup /\ IdleImport /\ IdleTwo /\ IdleKw /\ IdleView

SpecOrder == StartOrder /\ [][NextOrder]_vars

NextView ==
    \E req \in Requests : ViewRequest(req)

StartView == InitView /\ IdleRollover /\ IdleParse /\ IdleHeader /\ IdleGroup /\ IdleImport /\ IdleTwo /\ IdleKw /\ IdleOrder

SpecView == StartView /\ [][NextView]_vars

-----------------------------------------------------------------------------
(* C4: the resolved date is the token's day and month in the close date's  *)
(* year, unless that date is strictly after the close date, and then it is *)
(* that day and month in the previous year; it is never after the close    *)
(* date.                                                                   *)
C4_RolloverYear ==
    (r_pc = "done" /\ ~IsRaise(r_out)) =>
        /\ r_out.day = r_dia
        /\ r_out.month = r_mes
        /\ LET after == \/ r_mes > r_fech.month
                        \/ r_mes = r_fech.month /\ r_dia > r_fech.day
           IN  r_out.year = (IF after THEN r_fech.year - 1 ELSE r_fech.year)
        /\ ~DateLT(r_fech, r_out)

\* 31 December with close date 2025-01-10 resolves to 2024-12-31
C4_Witness ==
    /\ r_pc = "done"
    /\ r_dia = 31 /\ r_mes = 12 /\ r_fech = Date(2025, 1, 10)
    /\ r_out = Date(2024, 12, 31)

-----------------------------------------------------------------------------
(* the lists the finished calls of parse_lancamentos returned *)

Returned == {c \in 1..Len(p_ret) : p_ret[c].raise = None}

SameHash(L, i) == {j \in 1..Len(L) : L[j].hash_linha = L[i].hash_linha}

(* C1: in the list one call returns, the transactions of one hash carry    *)
(* the ordinals 1..N, N their number, without gap or repeat; exactly one   *)
(* of them has ordinal 1, and is_duplicado is true exactly for ordinals    *)
(* above 1.                                                                *)
C1_OrdinalsDense ==
    \A c \in Returned :
        LET L == p_ret[c].linhas
        IN  \A i \in 1..Len(L) :
                /\ {L[j].hash_ordem : j \in SameHash(L, i)} = 1..Cardinality(SameHash(L, i))
                /\ Cardinality({j \in SameHash(L, i) : L[j].hash_ordem = 1}) = 1
                /\ L[i].is_duplicado = (L[i].hash_ordem > 1)

\* a call returned three transactions of one hash, from lines that differ in
\* case, numbered 1, 2, 3
C1_Witness ==
    \E c \in Returned :
        LET L == p_ret[c].linhas
        IN  /\ Len(L) = 3
            /\ Cardinality(SameHash(L, 1)) = 3
            /\ \E i, j \in 1..3 : L[i].descricao # L[j].descricao
            /\ \E i \in 1..3 : L[i].hash_ordem = 3 /\ L[i].is_duplicado

HashSequence(r) ==
    [raise |-> r.raise,
     pairs |-> [i \in 1..Len(r.linhas) |-> <<r.linhas[i].hash_linha, r.linhas[i].hash_ordem>>]]

(* C3: two calls on the same text with the same close date return the same *)
(* ordered sequence of (hash_linha, hash_ordem) pairs: nothing of the      *)
(* first call is left to change the second.                                *)
C3_SameHashSequence ==
    \A c, d \in 1..Len(p_ret) : HashSequence(p_ret[c]) = HashSequence(p_ret[d])

\* the second call returned, like the first, a list with a repeated line
C3_Witness ==
    /\ Len(p_ret) = 2
    /\ 2 \in Returned
    /\ \E i \in 1..Len(p_ret[2].linhas) : p_ret[2].linhas[i].hash_ordem = 2

\* the lines of the block that the date line n of all_lines opens, as
\* <<line number, line>>: up to the next date line, without the blank lines
\* and the section headers
DateLines == {n \in 1..Len(all_lines) : RE_DATA_CURTA(all_lines[n])}

BlockLines(n) ==
    {j \in n..Len(all_lines) :
        /\ \A k \in (n + 1)..j : ~RE_DATA_CURTA(all_lines[k])
        /\ all_lines[j] # << >>
        /\ j = n \/ ~RE_SECAO(all_lines[j])}

AmountLines(n) == {j \in BlockLines(n) : RE_VALOR_FINAL(all_lines[j]) # None}

NegativeAmount(line) == Chars[RE_VALOR_FINAL(line)][1] = "-"

NoNegativePgtoDebito ==
    \A c \in Returned :
        \A i \in 1..Len(p_ret[c].linhas) :
            ~(/\ DecNegative(p_ret[c].linhas[i].valor)
              /\ RE_PGTO_DEBITO(p_ret[c].linhas[i].descricao))

C6_SortedStable ==
    \A c \in Returned :
        LET L == p_ret[c].linhas
        IN  \A i, j \in 1..Len(L) :
                i < j => /\ ~DateLT(L[j].data, L[i].data)
                         /\ L[i].data = L[j].data => L[i].bloco < L[j].bloco

\* the sort moved a later block in front, and two blocks of one date kept
\* their order
C6_Witness ==
    \E c \in Returned :
        LET L == p_ret[c].linhas
        IN  /\ Len(L) = 3
            /\ L[1].data = L[2].data /\ L[1].bloco < L[2].bloco
            /\ DateLT(L[2].data, L[3].data) /\ L[3].bloco < L[1].bloco

-----------------------------------------------------------------------------
(* the header extractor *)

HeaderDone == h_pc = "done"

HeaderReturned == h_pc = "done" /\ ~IsRaise(h_out)

Range(seq) == {seq[i] : i \in 1..Len(seq)}

\* the three required fields are found in the text
RequiredFound(txt) ==
    /\ PAT_FECHAMENTO(Stream(txt)) # 0
    /\ PAT_VENCIMENTO(Stream(txt)) # 0
    /\ PAT_FINAL_CARTAO(Stream(txt)) # 0

\* C7 as the specification states it: parse_dados_fatura returns a header
\* exactly when the trimmed text has at least 30 characters and the close
\* date, the due date and the card-tail are all found, and raises otherwise,
\* whatever the brand, anchor and total searches give.
C7_AsStated ==
    HeaderDone =>
        (~IsRaise(h_out) <=> (StripLen(h_texto) >= MinTexto /\ RequiredFound(h_texto)))

\* every required field found and both dates real, yet the call raised on the
\* text of the total
C7_TotalAborts ==
    /\ HeaderDone
    /\ StripLen(h_texto) >= MinTexto
    /\ RequiredFound(h_texto)
    /\ h_out = InvalidOperation

\* the lines before and behind the first anchor line of the text
AnchorLines(txt) == {i \in 1..Len(txt) : PAT_ANCHOR_LANCAMENTOS(txt[i])}

BeforeAnchor(txt) == SubSeq(txt, 1, First(AnchorLines(txt)) - 1)

AfterAnchor(txt) == SubSeq(txt, First(AnchorLines(txt)) + 1, Len(txt))

\* the total of a returned header is the first total-line match of the lines
\* searched, or absent with the total-not-found observation
TotalFrom(searched) ==
    IF PAT_TOTAL_DA_FATURA(Flatten(searched)) = << >>
    THEN IsNone(h_out.total) /\ OBS_SEM_TOTAL \in Range(h_out.observacoes)
    ELSE /\ h_out.total = parse_decimal_br(PAT_TOTAL_DA_FATURA(Flatten(searched)))
         /\ OBS_SEM_TOTAL \notin Range(h_out.observacoes)

\* C8: with an anchor line in the text, the total of a returned header comes
\* from a total-line match behind the first anchor line only (a total phrase
\* before the anchor alone leaves the total absent and records the
\* total-not-found observation); without an anchor line the whole text is
\* searched and the anchor-not-found observation is recorded.
C8_TotalAfterAnchor ==
    HeaderReturned =>
        IF AnchorLines(h_texto) # {}
        THEN /\ TotalFrom(AfterAnchor(h_texto))
             /\ OBS_SEM_ANCORA \notin Range(h_out.observacoes)
        ELSE /\ TotalFrom(h_texto)
             /\ OBS_SEM_ANCORA \in Range(h_out.observacoes)

\* a header returned for a text whose only total phrase stands before the anchor
C8_Witness ==
    /\ HeaderReturned
    /\ AnchorLines(h_texto) # {}
    /\ PAT_TOTAL_DA_FATURA(Flatten(BeforeAnchor(h_texto))) # << >>
    /\ PAT_TOTAL_DA_FATURA(Flatten(AfterAnchor(h_texto))) = << >>
    /\ IsNone(h_out.total)
    /\ OBS_SEM_TOTAL \in Range(h_out.observacoes)

\* the dates the two required searches matched
MatchedClose(txt) == strptime(Stream(txt)[PAT_FECHAMENTO(Stream(txt))].tok)

MatchedDue(txt) == strptime(Stream(txt)[PAT_VENCIMENTO(Stream(txt))].tok)

\* a reason to raise that has nothing to do with the order of the two dates
OtherFailure(txt) ==
    \/ StripLen(txt) < MinTexto
    \/ ~RequiredFound(txt)
    \/ IsRaise(MatchedClose(txt))
    \/ IsRaise(MatchedDue(txt))
    \/ IsRaise(parse_decimal_br(PAT_TOTAL_DA_FATURA(Flatten(texto_apos_ancora(txt).linhas))))

\* C9: every returned header has close date <= due date or carries the
\* due-before-close observation, and a due date before the close date never
\* makes the call raise: every raise has another reason.
C9_DueBeforeClose ==
    /\ HeaderReturned =>
           \/ DateLE(h_out.fechado_em, h_out.vencimento_em)
           \/ OBS_VENCIMENTO \in Range(h_out.observacoes)
    /\ (HeaderDone /\ IsRaise(h_out)) => OtherFailure(h_texto)

\* a header returned with its due date before its close date
C9_Witness ==
    /\ HeaderReturned
    /\ DateLT(h_out.vencimento_em, h_out.fechado_em)
    /\ OBS_VENCIMENTO \in Range(h_out.observacoes)

-----------------------------------------------------------------------------
(* the grouping of installments *)

GroupDone == g_pc = "done"

\* the date of the row of primary key id
DataOf(id) == g_itens[CHOOSE i \in 1..Len(g_itens) : g_itens[i].id = id].data

Members(g) == Range(g.lancamento_ids)

\* the member of g dated last before m, m not being the earliest
Previous(g, m) ==
    CHOOSE p \in Members(g) :
        /\ DataOf(p) < DataOf(m)
        /\ \A q \in Members(g) : DataOf(q) < DataOf(m) => DataOf(q) <= DataOf(p)

\* C10: every group returned has at least 2 members, and with the members
\* ordered by date each one is dated 20 to 38 days after the one before it.
C10_MonthlyChain ==
    GroupDone =>
        \A k \in 1..Len(g_out) :
            /\ Len(g_out[k].lancamento_ids) >= 2
            /\ Cardinality({DataOf(m) : m \in Members(g_out[k])}) = Len(g_out[k].lancamento_ids)
            /\ \A m \in Members(g_out[k]) :
                   \/ \A q \in Members(g_out[k]) : DataOf(m) <= DataOf(q)
                   \/ /\ DataOf(m) - DataOf(Previous(g_out[k], m)) >= 20
                      /\ DataOf(m) - DataOf(Previous(g_out[k], m)) <= 38

\* a group of three members, 20 and 38 days apart
C10_Witness ==
    /\ GroupDone
    /\ \E k \in 1..Len(g_out) :
           /\ Len(g_out[k].lancamento_ids) = 3
           /\ {DataOf(m) : m \in Members(g_out[k])} = {0, 20, 58}

\* the candidates of the queryset that fall in the bucket of key
InBucket(key) ==
    {i \in 1..Len(g_itens) : eh_candidato(g_itens[i]) /\ bucket_of(g_itens[i], g_uni) = key}

\* the groups returned for the bucket of key
GroupsOf(key) ==
    {k \in 1..Len(g_out) :
        <<g_out[k].group_id[1], g_out[k].desc_base, g_out[k].parcela_total>> = key}

\* the pairs of candidates of one amount that are alone in their bucket
LonePairs ==
    {p \in (1..Len(g_itens)) \X (1..Len(g_itens)) :
        /\ p[1] < p[2]
        /\ eh_candidato(g_itens[p[1]])
        /\ g_itens[p[1]].valor = g_itens[p[2]].valor
        /\ InBucket(bucket_of(g_itens[p[1]], g_uni)) = {p[1], p[2]}}

Gap(p) == Abs(g_itens[p[2]].data - g_itens[p[1]].data)

\* C11: two candidates of the same card, normalized description, installment
\* total and amount that are alone in their bucket yield exactly one group,
\* of these 2 members, when their dates are 20 to 38 days apart, and no
\* group when the gap is outside that window.
C11_PairWindow ==
    GroupDone =>
        \A p \in LonePairs :
            IF 20 <= Gap(p) /\ Gap(p) <= 38
            THEN /\ Cardinality(GroupsOf(bucket_of(g_itens[p[1]], g_uni))) = 1
                 /\ \A k \in GroupsOf(bucket_of(g_itens[p[1]], g_uni)) :
                        /\ Len(g_out[k].lancamento_ids) = 2
                        /\ Members(g_out[k]) = {g_itens[p[1]].id, g_itens[p[2]].id}
            ELSE GroupsOf(bucket_of(g_itens[p[1]], g_uni)) = {}

\* a lone pair 20 days apart that was grouped, in a queryset of three
\* rows
C11_Witness ==
    /\ GroupDone
    /\ Len(g_itens) = 3
    /\ \E p \in LonePairs :
           /\ Gap(p) = 20
           /\ Cardinality(GroupsOf(bucket_of(g_itens[p[1]], g_uni))) = 1
    /\ Len(g_out) = 1

\* the positions of the result that have a successor
Adjacent == {k \in 1..Len(g_out) : k < Len(g_out)}

\* C12 as stated: the groups are in descending order of purchase date, and
\* groups of one purchase date in ascending order of normalized description.
C12_AsStated ==
    GroupDone =>
        \A k \in Adjacent :
            \/ g_out[k].data_compra > g_out[k + 1].data_compra
            \/ /\ g_out[k].data_compra = g_out[k + 1].data_compra
               /\ DescBaseRank(g_out[k].desc_base) <= DescBaseRank(g_out[k + 1].desc_base)

\* C12: the groups are in descending order of purchase date, and groups of
\* one purchase date in descending order of normalized description.
C12_DescendingKey ==
    GroupDone =>
        \A k \in Adjacent :
            \/ g_out[k].data_compra > g_out[k + 1].data_compra
            \/ /\ g_out[k].data_compra = g_out[k + 1].data_compra
               /\ DescBaseRank(g_out[k].desc_base) >= DescBaseRank(g_out[k + 1].desc_base)

\* two groups of one purchase date whose bucket of the smaller description
\* was filled first, returned with the greater description first
C12_Witness ==
    /\ GroupDone
    /\ Len(g_out) = 2
    /\ g_out[1].data_compra = g_out[2].data_compra
    /\ DescBaseRank(g_out[1].desc_base) > DescBaseRank(g_out[2].desc_base)
    /\ bucket_of(g_itens[1], g_uni)[2] = g_out[2].desc_base

-----------------------------------------------------------------------------
(* the import command *)

\* the stored invoice of the card and cycle of the PDF carries the hash of
\* its text: the text is the one last imported for that card and cycle
StoredHashOf(pdf) ==
    /\ ~IsRaise(DadosDe[pdf])
    /\ fatura_de(DadosDe[pdf]) \in DOMAIN i_faturas
    /\ i_faturas[fatura_de(DadosDe[pdf])].arquivo_hash = DadosDe[pdf].arquivo_hash

NoRewrite == ~i_opts.replace /\ ~i_opts.force /\ ~i_opts.force_all

Ignored(pdf) ==
    /\ i_last' = [pdf |-> pdf, out |-> "ignorado"]
    /\ i_ignorados' = i_ignorados + 1
    /\ i_ok' = i_ok
    /\ i_erros' = i_erros
    /\ UNCHANGED <<i_faturas, i_lancs>>

RunEnded == i_pc = "idle" /\ i_run >= 1

\* C13 as stated: at the end of a run the three counters sum to the number
\* of statements processed.
C13_AsStated ==
    RunEnded => i_ok + i_erros + i_ignorados = i_n

\* a run over one statement with too little text ends with the three
\* counters at zero
C13_ShortUncounted ==
    /\ RunEnded
    /\ i_n = 1
    /\ i_last = [pdf |-> "s.pdf", out |-> "pouco texto"]
    /\ i_ok + i_erros + i_ignorados = 0

\* parse_dados_fatura is called on the text of pdf and raises
HeaderFails(pdf) ==
    /\ pdf \in Pdfs
    /\ StripLen(extrair_texto[pdf]) >= MinTexto
    /\ IsRaise(DadosDe[pdf])

\* C14: a turn of the loop over a statement whose header parse fails adds
\* one to the error counter and to no other, leaves the four tables as they
\* were, and leaves the loop running with every statement having the result
\* it had before that turn.
C14_HeaderFailureIsolated ==
    [][(i_pc = "loop" /\ i_n' = i_n + 1 /\ HeaderFails(i_last'.pdf)) =>
          /\ i_erros' = i_erros + 1
          /\ i_ok' = i_ok /\ i_ignorados' = i_ignorados
          /\ i_last'.out = "erro"
          /\ <<i_inst, i_cartoes, i_faturas, i_lancs>>' = <<i_inst, i_cartoes, i_faturas, i_lancs>>
          /\ i_pc' = "loop" /\ i_opts' = i_opts
          /\ \A pdf \in Pdfs :
                 importar_pdf(pdf, i_opts', i_inst', i_cartoes', i_faturas', i_lancs')
                     = importar_pdf(pdf, i_opts, i_inst, i_cartoes, i_faturas, i_lancs)]_vars

\* the second statement of a run fails in its header, behind a statement
\* that was imported
C14_Witness ==
    /\ i_pc = "loop"
    /\ i_n = 2
    /\ i_last = [pdf |-> "e.pdf", out |-> "erro"]
    /\ i_ok = 1 /\ i_erros = 1
    /\ i_lancs # {}

\* C15 as stated: no step of a run with --dry-run changes any of the four
\* tables, whatever the other options are.
C15_AsStated ==
    [][i_opts'.dry =>
          <<i_inst, i_cartoes, i_faturas, i_lancs>>' = <<i_inst, i_cartoes, i_faturas, i_lancs>>]_vars

\* a second run, with --dry-run and --force-all, has reached its loop: the
\* cards that came with the institution of the first run are gone
C15_DryRunDeletes ==
    /\ i_run = 2
    /\ i_pc = "loop"
    /\ i_n = 0
    /\ i_opts.dry /\ i_opts.force_all
    /\ i_inst # {}
    /\ i_cartoes = {}

-----------------------------------------------------------------------------
(* the keyword arguments of parse_lancamentos *)

\* the call with the keyword arguments has returned its list
KwReturned == k_pc = "done" /\ k_out.raise = None

\* the lines of the text behind the anchor that open a block
KwDateLines ==
    {n \in 1..Len(linhas_apos_ancora(k_texto)) : RE_DATA_CURTA(linhas_apos_ancora(k_texto)[n])}

\* the blocks of the text that gave no transaction to the call
Discarded ==
    {n \in KwDateLines : \A i \in 1..Len(k_out.linhas) : k_out.linhas[i].bloco # n}

\* C16 as stated: a call with debug_unmatched set returns, next to the
\* transactions, a sample of the discarded blocks that holds at most
\* debug_max entries, and its transactions are those of the call without
\* the flag.
C16_AsStated ==
    (KwReturned /\ k_debug.debug_unmatched) =>
        /\ "unmatched" \in DOMAIN k_out
        /\ Len(k_out.unmatched) <= k_debug.debug_max
        /\ k_out.linhas = parse_lancamentos(k_texto, KwFech, TRUE).linhas

\* a call with debug_unmatched set over a text with a discarded block
\* returns the list of transactions of the call without the flag and
\* nothing else
C16_NoSample ==
    /\ KwReturned
    /\ k_debug.debug_unmatched
    /\ Discarded # {}
    /\ k_out.linhas # << >>
    /\ k_out = parse_lancamentos(k_texto, KwFech, TRUE)
    /\ DOMAIN k_out = {"raise", "linhas"}

-----------------------------------------------------------------------------
(* two calls at once *)

\* what the call c returns, or raises, when it runs with no other call
Alone(c) == scan_lines(t_lines[c], 1, << >>, None, EmptyMap, << >>, TwoFech, TRUE)

\* the locals and the result of call c
LocalsOf(c) == <<t_block[c], t_secao[c], t_cont[c], t_linhas[c], t_ret[c]>>

\* C17: however the turns of the two calls are interleaved, a call that has
\* ended has returned, or raised, what it does when run alone; and a step
\* that is not a turn of call c leaves the block, the section, the counter,
\* the list and the result of call c as they were.
C17_CallsIndependent ==
    /\ [](\A c \in Calls : t_pc[c] \in {"done", "raised"} => t_ret[c] = Alone(c))
    /\ [][\A c \in Calls :
              (t_pos'[c] = t_pos[c] /\ t_pc'[c] = t_pc[c]) => LocalsOf(c)' = LocalsOf(c)]_vars

\* both calls have returned the same transaction with the ordinal 1; call 2
\* took its turns between those of call 1, whose stream has a section
\* header that call 2 does not have
C17_Witness ==
    /\ t_pc = [c \in Calls |-> "done"]
    /\ t_lines[1] = << <<"COMPRAS", "NACIONAIS">>, <<"15/03", "MARKET", "R$", "45,67">> >>
    /\ t_lines[2] = << <<"15/03", "MARKET", "R$", "45,67">>, <<"15/03", "MARKET", "R$", "45,67">> >>
    /\ Len(t_ret[1].linhas) = 1 /\ Len(t_ret[2].linhas) = 2
    /\ t_ret[1].linhas[1].hash_ordem = 1
    /\ t_ret[2].linhas[2].hash_ordem = 2
    /\ t_ret[1].linhas[1].secao # None
    /\ t_ret[2].linhas[1].secao = None

-----------------------------------------------------------------------------
(* the section labels and the blocks of the line stream *)

\* the call in progress has returned its list
ParseReturned == p_pc = "done" /\ p_call \in Returned

\* the section-header lines of the stream
SectionHeaders ==
    {n \in 1..Len(all_lines) :
        all_lines[n] # << >> /\ ~RE_DATA_CURTA(all_lines[n]) /\ RE_SECAO(all_lines[n])}

\* the greatest element of S, 0 when S is empty
Last(S) == IF S = {} THEN 0 ELSE CHOOSE n \in S : \A m \in S : m <= n

\* the label of the last section header before line n, if there is one
LabelBefore(n) ==
    IF {h \in SectionHeaders : h < n} = {} THEN None
    ELSE normalizar_secao(all_lines[Last({h \in SectionHeaders : h < n})], has_unidecode)

\* the line that closes the block opened at line n: the next date line, or
\* the end of the stream
ClosedAt(n) ==
    IF {d \in DateLines : d > n} = {} THEN Len(all_lines) + 1
    ELSE First({d \in DateLines : d > n})

\* C18 as stated: the section of every returned transaction is the label of
\* the last section header before the date line of its block, and absent
\* when there is none.
C18_AsStated ==
    ParseReturned =>
        \A i \in 1..Len(p_ret[p_call].linhas) :
            p_ret[p_call].linhas[i].secao = LabelBefore(p_ret[p_call].linhas[i].bloco)

\* a returned transaction carries the label of a section header that comes
\* after its date line, no header coming before it
C18_LaterHeaderLabels ==
    /\ ParseReturned
    /\ \E i \in 1..Len(p_ret[p_call].linhas) :
           /\ LabelBefore(p_ret[p_call].linhas[i].bloco) = None
           /\ p_ret[p_call].linhas[i].secao = "Compras Nacionais"
           /\ \E h \in SectionHeaders :
                  /\ p_ret[p_call].linhas[i].bloco < h
                  /\ h < ClosedAt(p_ret[p_call].linhas[i].bloco)

\* the lines numbered in S, each with its number, in the order of the stream
PairsOf(S) ==
    SelectSeq([j \in 1..Len(all_lines) |-> <<j, all_lines[j]>>], LAMBDA pair : pair[1] \in S)

\* the block opened by the date line n, as flush_block() receives it
BlockOf(n) == PairsOf(BlockLines(n))

\* the block of the date line n resolves to a transaction
Resolves(n) ==
    flush_block(BlockOf(n), None, EmptyMap, << >>, p_fech, has_unidecode).linhas # << >>

\* the returned transactions of the block opened at line n
YieldOf(n) ==
    {i \in 1..Len(p_ret[p_call].linhas) : p_ret[p_call].linhas[i].bloco = n}

\* the date lines the loop has passed
Passed == {d \in DateLines : d < p_pos}

\* the open block starts with the date line last, the last one passed, and
\* the list holds transactions of earlier date lines only, one at most each
OpenedBy(last) ==
    /\ last = 0 => current_block = << >>
    /\ last # 0 => current_block # << >> /\ current_block[1] = <<last, all_lines[last]>>
    /\ \A i \in 1..Len(linhas) :
           /\ linhas[i].bloco < last
           /\ RE_DATA_CURTA(all_lines[linhas[i].bloco])
    /\ \A i, j \in 1..Len(linhas) : linhas[i].bloco = linhas[j].bloco => i = j

\* C19: during the scan the open block starts with the last date line
\* passed, and only the blocks of the date lines before that one have given
\* the list a transaction, one at most each; in the list returned every
\* date line, the last one included, has exactly one transaction when its
\* block resolves and none otherwise.
C19_BlocksResolvedOnce ==
    /\ p_pc = "scan" => OpenedBy(Last(Passed))
    /\ ParseReturned =>
           /\ \A n \in DateLines : Cardinality(YieldOf(n)) = (IF Resolves(n) THEN 1 ELSE 0)
           /\ \A i \in 1..Len(p_ret[p_call].linhas) : p_ret[p_call].linhas[i].bloco \in DateLines

\* two transactions returned, the second from the block still open at the
\* end of the stream, which takes its amount from its second line
C19_Witness ==
    /\ ParseReturned
    /\ Len(p_ret[p_call].linhas) = 2
    /\ Cardinality(DateLines) = 2
    /\ Cardinality(BlockLines(Last(DateLines))) = 2
    /\ Cardinality(YieldOf(Last(DateLines))) = 1
    /\ Last(DateLines) = Len(all_lines) - 1

\* the lines of the stream that are neither blank, nor a date line, nor a
\* section header
OtherLines ==
    {j \in 1..Len(all_lines) :
        all_lines[j] # << >> /\ ~RE_DATA_CURTA(all_lines[j]) /\ ~RE_SECAO(all_lines[j])}

\* the line numbers of the open block
OpenLines == {current_block[k][1] : k \in 1..Len(current_block)}

\* what the block of the date line n resolves to on its own
ResolvedAlone(n) ==
    flush_block(BlockOf(n), None, EmptyMap, << >>, p_fech, has_unidecode).linhas

\* the transaction l has the description, the amount and the installment
\* tag of the one transaction of alone
SameText(l, alone) ==
    /\ Len(alone) = 1
    /\ l.descricao = alone[1].descricao
    /\ l.valor = alone[1].valor
    /\ l.etiqueta_parcela = alone[1].etiqueta_parcela

\* the open block, of line numbers open, holds its date line, last, and
\* the other lines passed since, each with its text
OpenBlockIs(last, open, others) ==
    /\ \A j \in others : j < p_pos => (j \in open <=> (last # 0 /\ j > last))
    /\ \A j \in open : j \in others \/ j = last
    /\ \A k \in 1..Len(current_block) : current_block[k][2] = all_lines[current_block[k][1]]

\* C20: during the scan the open block holds, behind its date line, the
\* other lines passed since, and no blank line and no section header; a
\* line passed before any date line is in no block.  The description, the
\* amount and the installment tag of a returned transaction are those its
\* block resolves to without the blank lines and the section headers.
C20_OnlyOtherLinesJoin ==
    /\ p_pc = "scan" => OpenBlockIs(Last(Passed), OpenLines, OtherLines)
    /\ ParseReturned =>
           \A i \in 1..Len(p_ret[p_call].linhas) :
               SameText(p_ret[p_call].linhas[i], ResolvedAlone(p_ret[p_call].linhas[i].bloco))

\* a transaction returned from a block of three lines, a section header
\* between its date line and the line of its amount
C20_Witness ==
    /\ ParseReturned
    /\ Len(all_lines) = 3
    /\ RE_DATA_CURTA(all_lines[1])
    /\ 2 \in SectionHeaders
    /\ 3 \in OtherLines
    /\ Len(p_ret[p_call].linhas) = 1
    /\ SameText(p_ret[p_call].linhas[1], ResolvedAlone(1))
    /\ BlockLines(1) = {1, 3}

-----------------------------------------------------------------------------
(* the value line of a block *)

\* the value line of the block opened at the date line n: the first line of
\* the block that matches no skip phrase and ends in an amount, 0 if none
ValueLineOf(n) == First({j \in AmountLines(n) : ~RE_SKIP_VALUE_LINE(all_lines[j])})

\* the lines of the block of n strictly between its date line and line j
Between(n, j) == Flatten([k \in 1..Len(PairsOf({m \in BlockLines(n) : n < m /\ m < j})) |->
                             PairsOf({m \in BlockLines(n) : n < m /\ m < j})[k][2]])

\* what the block of n resolves to when it is cut behind line j
ResolvedUpTo(n, j) ==
    flush_block(PairsOf({m \in BlockLines(n) : m <= j}), None, EmptyMap, << >>,
                p_fech, has_unidecode).linhas

\* the fields of a transaction that its block alone decides
OwnFields(l) ==
    <<l.data, l.descricao, l.cidade, l.pais, l.valor, l.etiqueta_parcela,
      l.parcela_num, l.parcela_total, l.hash_linha>>

\* the transaction l of the block of n reads its amount on line j and its
\* description before line j, and is the one the block cut behind j gives
ReadAt(l, n, j, cut) ==
    /\ j # 0
    /\ l.valor = parse_decimal_br(Chars[RE_VALOR_FINAL(all_lines[j])])
    /\ l.descricao = montar_descricao(limpar_primeira_linha_sem_data(Tail(all_lines[n]))[1],
                                      Tail(all_lines[n]), Between(n, j))
    /\ Len(cut) = 1
    /\ OwnFields(l) = OwnFields(cut[1])

\* C21: the amount of every returned transaction is read from the value
\* line of its block, the first line in order that matches no skip phrase
\* (PGTO DEBITO, SUBTOTAL, TOTAL DA FATURA) and ends in an amount; its
\* description is built from the text of its date line and the lines
\* between the date line and the value line; the transaction is the one
\* the block gives without the lines after the value line; and a block
\* with no value line has no transaction in the returned list.
C21_FirstValueLine ==
    ParseReturned =>
        /\ \A i \in 1..Len(p_ret[p_call].linhas) :
               ReadAt(p_ret[p_call].linhas[i],
                      p_ret[p_call].linhas[i].bloco,
                      ValueLineOf(p_ret[p_call].linhas[i].bloco),
                      ResolvedUpTo(p_ret[p_call].linhas[i].bloco,
                                   ValueLineOf(p_ret[p_call].linhas[i].bloco)))
        /\ \A n \in DateLines : ValueLineOf(n) = 0 => YieldOf(n) = {}

\* a transaction returned from a block with two lines that end in an
\* amount, its value line followed by another line; and a block whose only
\* amount is on a line with a skip phrase, which returned nothing
C21_Witness ==
    /\ ParseReturned
    /\ \E i \in 1..Len(p_ret[p_call].linhas) :
           /\ Cardinality(AmountLines(p_ret[p_call].linhas[i].bloco)) = 2
           /\ ValueLineOf(p_ret[p_call].linhas[i].bloco)
                  < Last(BlockLines(p_ret[p_call].linhas[i].bloco))
    /\ \E n \in DateLines :
           AmountLines(n) # {} /\ ValueLineOf(n) = 0 /\ YieldOf(n) = {}

-----------------------------------------------------------------------------
(* the groups of agrupar_parcelados *)

\* the amount of the row of primary key id
ValorOf(id) == g_itens[CHOOSE i \in 1..Len(g_itens) : g_itens[i].id = id].valor

\* the bucket key of the group g
KeyOf(g) == <<g.group_id[1], g.desc_base, g.parcela_total>>

\* the amounts of the rows numbered in S
Valores(S) == {g_itens[i].valor : i \in S}

RECURSIVE Refs(_)
\* the references of the value sub-buckets of a bucket with the amounts V:
\* the smallest amount, then the smallest amount more than the tolerance
\* above the reference before it
Refs(V) ==
    IF V = {} THEN {}
    ELSE {First(V)} \cup Refs({v \in V : v - First(V) > TOLERANCIA_VALOR_ABS})

\* the amounts of the members of g
MemberValores(g) == {ValorOf(m) : m \in Members(g)}

\* C22: the members of a group all come from one value sub-bucket of their
\* bucket, whose reference is the amount of its first, smallest member
\* and stays the same as members are added: each member is at most the
\* tolerance above that reference; hence the amounts of any two members of
\* a group differ by at most 0.50.
C22_OneSubBucket ==
    GroupDone =>
        \A k \in 1..Len(g_out) :
            /\ \E r \in Refs(Valores(InBucket(KeyOf(g_out[k])))) :
                   \A v \in MemberValores(g_out[k]) :
                       r <= v /\ v - r <= TOLERANCIA_VALOR_ABS
            /\ \A v, w \in MemberValores(g_out[k]) : Abs(v - w) <= TOLERANCIA_VALOR_ABS

\* a bucket with the amounts 10.00, 10.50 and 10.51, a month apart each:
\* the first two are grouped, 10.51, within the tolerance of 10.50 but not
\* of the reference 10.00, is not
C22_Witness ==
    /\ GroupDone
    /\ Len(g_itens) = 3
    /\ Cardinality(InBucket(bucket_of(g_itens[1], g_uni))) = 3
    /\ {g_itens[i].data : i \in 1..3} = {0, 20, 58}
    /\ \E i, j, l \in 1..3 :
           /\ g_itens[i].data = 0 /\ g_itens[i].valor = 1000
           /\ g_itens[j].data = 20 /\ g_itens[j].valor = 1050
           /\ g_itens[l].data = 58 /\ g_itens[l].valor = 1051
    /\ Len(g_out) = 1
    /\ MemberValores(g_out[1]) = {1000, 1050}

\* the row of primary key id
RowOf(id) == g_itens[CHOOSE i \in 1..Len(g_itens) : g_itens[i].id = id]

\* the description of the row holds installment wording
HasWording(l) ==
    \E i \in 1..Len(l.descricao) :
        \/ l.descricao[i] \in DOMAIN Frac
        \/ upper(l.descricao[i]) \in XSimple \cup WordParc

\* the installment total of the row: the recorded one when positive, else
\* the one its description reads, else none
PreferredTotal(l, inferred) ==
    IF l.parcela_total > 0 THEN l.parcela_total
    ELSE IF inferred > 0 THEN inferred ELSE NoneInt

\* the row l is eligible and has the bucket key of the group g
MemberOf(l, g) ==
    /\ HasWording(l) \/ l.etiqueta_parcela # None \/ l.parcela_total > 0
    /\ l.cartao_id = g.group_id[1]
    /\ try_normalizar(l.descricao, g_uni) = g.desc_base
    /\ PreferredTotal(l, extract_num_total(l.descricao)[2]) = g.parcela_total

\* C23: every transaction listed in a returned group is a row of the
\* queryset that is eligible (installment wording in its description, or a
\* non-empty installment tag, or a positive installment total), and its
\* card, its normalized description without the installment tokens and
\* its installment total (the recorded one preferred to the one read from
\* the description) are those of the group: all members of a group share
\* one bucket key.
C23_EligibleOneKey ==
    GroupDone =>
        \A k \in 1..Len(g_out) :
            \A m \in Members(g_out[k]) :
                /\ \E i \in 1..Len(g_itens) : g_itens[i].id = m
                /\ MemberOf(RowOf(m), g_out[k])

\* a group of two rows whose recorded total, 5, differs from the 3 their
\* description reads, next to a row of the same description and no
\* recorded total that is left out of it
C23_Witness ==
    /\ GroupDone
    /\ Len(g_itens) = 3
    /\ Len(g_out) = 1
    /\ g_out[1].parcela_total = 5
    /\ Len(g_out[1].lancamento_ids) = 2
    /\ \A m \in Members(g_out[1]) : extract_num_total(RowOf(m).descricao)[2] = 3
    /\ \E i \in 1..3 :
           /\ g_itens[i].id \notin Members(g_out[1])
           /\ g_itens[i].parcela_total = NoneInt
           /\ g_itens[i].descricao = RowOf(g_out[1].lancamento_ids[1]).descricao

\* the ids of the eligible rows of the queryset
EligibleIds == {g_itens[i].id : i \in {j \in 1..Len(g_itens) : eh_candidato(g_itens[j])}}

\* C27: in one result no id is listed twice in a group, no id is listed in
\* two groups, and every id listed is the id of an eligible row of the
\* queryset: the groups are pairwise disjoint subsets of the eligible
\* input.
C27_GroupsDisjoint ==
    GroupDone =>
        /\ \A k \in 1..Len(g_out) :
               /\ Cardinality(Members(g_out[k])) = Len(g_out[k].lancamento_ids)
               /\ Members(g_out[k]) \subseteq EligibleIds
        /\ \A k, j \in 1..Len(g_out) :
               k # j => Members(g_out[k]) \cap Members(g_out[j]) = {}

\* two groups returned from one bucket of four rows, the second chain
\* opened by a row dated the same day as the last row of the first
C27_Witness ==
    /\ GroupDone
    /\ Len(g_itens) = 4
    /\ Len(g_out) = 2
    /\ KeyOf(g_out[1]) = KeyOf(g_out[2])
    /\ Members(g_out[1]) \cup Members(g_out[2]) = 1..4
    /\ \E m \in Members(g_out[1]) : \E q \in Members(g_out[2]) : DataOf(m) = DataOf(q)

\* C28: in one result no two groups have the same identity: the tuple of
\* card id, purchase date, normalized description, average value and
\* installment total differs between any two groups, so a group_id selects
\* exactly one group of the result.
C28_IdentityUnique ==
    GroupDone =>
        /\ \A k, j \in 1..Len(g_out) : g_out[k].group_id = g_out[j].group_id => k = j
        /\ \A k \in 1..Len(g_out) :
               g_out[k].group_id = <<g_out[k].group_id[1], g_out[k].data_compra, g_out[k].desc_base,
                                     g_out[k].valor_parcela_medio,
                                     IF g_out[k].parcela_total = NoneInt THEN 0
                                     ELSE g_out[k].parcela_total>>

\* two groups of one card, description, average value and installment
\* total, told apart by their purchase dates only
C28_Witness ==
    /\ GroupDone
    /\ Len(g_out) = 2
    /\ KeyOf(g_out[1]) = KeyOf(g_out[2])
    /\ g_out[1].valor_parcela_medio = g_out[2].valor_parcela_medio
    /\ g_out[1].data_compra # g_out[2].data_compra
    /\ g_out[1].group_id # g_out[2].group_id

-----------------------------------------------------------------------------
(* the order of the rows *)

\* the groups of a result, as a set
GroupSet(grupos) == Range(grupos)

OrderDone == o_pc = "done"

\* C29: the set of groups returned, each with its identity, its list of
\* member ids and its derived values, is the same for every order in
\* which the rows of one collection are supplied: it is the set returned
\* for the rows in the order of their ids.
C29_OrderIndependent ==
    OrderDone => GroupSet(o_out) = GroupSet(agrupar_parcelados(o_rows, TRUE))

\* rows supplied in the reverse of their id order, two groups of one
\* purchase date and two descriptions returned, the rows of one date
\* chained by id whatever the order
C29_Witness ==
    /\ OrderDone
    /\ o_itens = [i \in 1..4 |-> o_rows[5 - i]]
    /\ Len(o_out) = 2
    /\ o_out[1].desc_base # o_out[2].desc_base
    /\ o_out[1].data_compra = o_out[2].data_compra
    /\ bucket_of(o_itens[1], TRUE) # bucket_of(o_rows[1], TRUE)

-----------------------------------------------------------------------------
(* what an import stores *)

\* the step is the turn of the loop over pdf, in a run that writes
Turn(pdf) ==
    /\ i_pc = "loop"
    /\ i_n' = i_n + 1
    /\ i_last'.pdf = pdf
    /\ ~i_opts.dry

\* the rows stored for the invoice fatura
StoredFor(lancs, fatura) == {r \in lancs : r.fatura = fatura}

\* the rows the parsed lines lins would be stored as, one each
RowsOf(fatura, lins) == {LancamentoRow(fatura, lins[i]) : i \in 1..Len(lins)}

\* the rows stored for fatura are those of the parsed lines, one each
StoredAsParsed(lancs, fatura, lins) ==
    /\ StoredFor(lancs, fatura) = RowsOf(fatura, lins)
    /\ Cardinality(StoredFor(lancs, fatura)) = Len(lins)

\* C24 as stated: when a statement whose invoice is not in the store is
\* imported, the rows stored for its invoice are those of the transactions
\* the parser returned, one row each, a transaction with hash_ordem > 1
\* included: the stored count is the parsed count.
C24_AsStated ==
    [][\A pdf \in Pdfs :
          (Turn(pdf) /\ i_last'.out = "ok" /\ fatura_de(DadosDe[pdf]) \notin DOMAIN i_faturas)
          => StoredAsParsed(i_lancs', fatura_de(DadosDe[pdf]), LinhasDe[pdf].linhas)]_vars

\* the first statement of the first run holds the same line twice: the
\* parser returned two transactions, the second with hash_ordem 2, the
\* import ended well and one row is stored, with hash_ordem 1
C24_RepeatNotStored ==
    /\ i_run = 1 /\ i_n = 1
    /\ ~i_opts.dry
    /\ i_last = [pdf |-> "d.pdf", out |-> "ok"]
    /\ Len(LinhasDe["d.pdf"].linhas) = 2
    /\ LinhasDe["d.pdf"].linhas[2].hash_ordem = 2
    /\ Cardinality(StoredFor(i_lancs, fatura_de(DadosDe["d.pdf"]))) = 1
    /\ \A r \in i_lancs : r.hash_ordem = 1

\* the invoice of pdf is stored with the header of pdf, and every parsed
\* transaction has its row
AllStored(pdf, faturas, lancs) ==
    /\ fatura_de(DadosDe[pdf]) \in DOMAIN faturas
    /\ faturas[fatura_de(DadosDe[pdf])] = FaturaCartao(DadosDe[pdf], pdf)
    /\ \A i \in 1..Len(LinhasDe[pdf].linhas) :
           \E r \in StoredFor(lancs, fatura_de(DadosDe[pdf])) :
               /\ r.hash_linha = LinhasDe[pdf].linhas[i].hash_linha
               /\ r.hash_ordem = LinhasDe[pdf].linhas[i].hash_ordem

\* C25 as stated: a turn of the loop that imports a statement leaves its
\* invoice header and all of its parsed transactions stored, and a turn
\* that fails leaves the four tables as they were before it, whatever
\* --force and --replace are and also when a parsed line collides with a
\* stored (invoice, hash, ordinal).
C25_AsStated ==
    [][\A pdf \in Pdfs :
          Turn(pdf) =>
              /\ i_last'.out = "ok" => AllStored(pdf, i_faturas', i_lancs')
              /\ i_last'.out = "erro" =>
                     <<i_inst, i_cartoes, i_faturas, i_lancs>>'
                         = <<i_inst, i_cartoes, i_faturas, i_lancs>>]_vars

\* the first statement of the first run failed in parse_lancamentos, and
\* the store, empty before, holds the institution and the card that were
\* created before the lines were parsed
C25_FailureLeavesCard ==
    /\ i_run = 1 /\ i_n = 1
    /\ ~i_opts.dry
    /\ i_last = [pdf |-> "x.pdf", out |-> "erro"]
    /\ ~IsRaise(DadosDe["x.pdf"])
    /\ LinhasDe["x.pdf"].raise = "ValueError"
    /\ i_inst = {"Banco do Brasil"}
    /\ i_cartoes = {cartao_de(DadosDe["x.pdf"])}
    /\ i_faturas = << >> /\ i_lancs = {}

-----------------------------------------------------------------------------
(* the blocks the parser cannot convert *)

\* the call in progress has ended, with a list or with an exception
CallEnded == p_pc \in {"done", "raised"} /\ Len(p_ret) = p_call

\* the date lines whose day and month are no date of the year the rollover
\* tries first, or whose value line holds an amount that does not convert
BadBlocks ==
    {n \in DateLines :
        flush_block(BlockOf(n), None, EmptyMap, << >>, p_fech, has_unidecode).raise # None}

\* C26 as stated: every call ends without raising, and returns the
\* transaction of every block that resolves, whatever the other blocks of
\* the text are: a block with an invalid day/month or an amount that does
\* not convert is dropped.
C26_AsStated ==
    CallEnded =>
        /\ p_ret[p_call].raise = None
        /\ \A n \in DateLines : Resolves(n) => YieldOf(n) # {}

\* a call over a text with a block that resolves and a block dated 29/02,
\* the close date being in 2025, ended with the ValueError of the date
\* constructor and returned no transaction
C26_BadDateRaises ==
    /\ CallEnded
    /\ p_pc = "raised"
    /\ p_ret[p_call] = [raise |-> ValueError.raise, linhas |-> << >>]
    /\ p_fech = Date(2025, 1, 10)
    /\ \E n \in BadBlocks : all_lines[n][1] = "29/02"
    /\ \E n \in DateLines : Resolves(n)

-----------------------------------------------------------------------------
(* the requests to parcelados_acao *)

\* the step answers the request req
Answers(req) == a_n' = a_n + 1 /\ a_last'.req = req

\* the members of the group of id group_id among the groups of the rows of
\* lancs that the filter of the request keeps
PostedMembers(req, lancs) ==
    UNION {{g.lancamento_ids[m] : m \in 1..Len(g.lancamento_ids)} :
              g \in {h \in {agrupar_parcelados(view_qs(lancs, parse_date(req.data_ini),
                                                       parse_date(req.data_fim), req.busca),
                                               TRUE)[k] :
                               k \in 1..Len(agrupar_parcelados(
                                               view_qs(lancs, parse_date(req.data_ini),
                                                       parse_date(req.data_fim), req.busca),
                                               TRUE))} :
                        h.group_id = req.group_id}}

\* the row after differs from the row before in its category or its member
\* set at most
SameButAssigned(before, after) ==
    after = [before EXCEPT !.categoria = after.categoria, !.membros = after.membros]

\* the answers that are errors
ErrorAnswers ==
    {"Período inválido.", "Grupo não encontrado para o filtro atual.",
     "Ação não suportada.", "Categoria não informada.", "Categoria inválida."}

\* C30: a request changes only rows that are members of the group whose
\* group_id it posts, and of those only the category or the member set;
\* a request answered with an error (invalid period, group not found,
\* unsupported action, missing or invalid category) changes no row; and
\* the same request repeated after a redirect leaves the table as the
\* first one left it.
C30_OnlyPostedGroup ==
    [][\A req \in Requests :
          Answers(req) =>
              /\ Len(a_lancs') = Len(a_lancs)
              /\ \A i \in 1..Len(a_lancs) :
                     /\ SameButAssigned(a_lancs[i], a_lancs'[i])
                     /\ a_lancs'[i] # a_lancs[i] =>
                            (a_schema /\ a_lancs[i].id \in PostedMembers(req, a_lancs))
              /\ a_last'.out \in ErrorAnswers => a_lancs' = a_lancs
              /\ a_last'.out = "redirect" =>
                     parcelados_acao(req, a_schema, a_lancs') = Resposta("redirect", a_lancs')]_vars

\* a second request gave a category to the two visible rows of one group,
\* the table holding rows of another group, changed by the first request,
\* and a hidden row, all left as they were
C30_Witness ==
    /\ a_n = 2
    /\ a_last.out = "redirect"
    /\ a_last.req.action = "set_categoria"
    /\ {i \in 1..Len(a_lancs) : a_lancs[i].categoria = a_last.req.categoria_id} = {4, 5}
    /\ \E i \in 1..3 : a_lancs[i].membros # {}
    /\ a_lancs[6] = ViewRows[6]

====
